---- MODULE Spec2Model ----
(***************************************************************************)
(* A model of the olam linear-algebra library (vec2/vec3/vec4, mat2/mat3,  *)
(* quat).  Objects live in a heap keyed by object identity, so that the    *)
(* library's output-parameter convention (a destination that may alias an  *)
(* operand or the receiver) and its module-scope scratch temporaries are   *)
(* part of the state.  Numbers are exact rationals <<n, d>> in lowest      *)
(* terms with d > 0: the arithmetic of the library is modelled over the    *)
(* reals it approximates, and division by zero is excluded by the inputs.  *)
(***************************************************************************)
EXTENDS Integers, Sequences, FiniteSets, TLC

VARIABLES
    heap,   \* object id -> the object's fields (a record of numbers)
    pre,    \* the heap as it was on entry to the last call
    call,   \* the last call: [op, lhs, rhs, out, idx]
    ret     \* what the last call returned: an object id, "throw", or "none"

vars == <<heap, pre, call, ret>>

(***************************************************************************)
(* Bounds of the model.                                                    *)
(***************************************************************************)
MaxEntry == 1

(***************************************************************************)
(* Numbers.                                                                *)
(***************************************************************************)
RECURSIVE Gcd(_, _)
Gcd(a, b) == IF b = 0 THEN a ELSE Gcd(b, a % b)

Abs(n) == IF n < 0 THEN -n ELSE n

Rat(n, d) ==
    LET g == Gcd(Abs(n), Abs(d))
        s == IF d < 0 THEN -1 ELSE 1
    IN  <<(s * n) \div g, (s * d) \div g>>

Num(i) == <<i, 1>>

Zero == Num(0)

One == Num(1)

add(a, b) == Rat(a[1] * b[2] + b[1] * a[2], a[2] * b[2])

sub(a, b) == Rat(a[1] * b[2] - b[1] * a[2], a[2] * b[2])

mul(a, b) == Rat(a[1] * b[1], a[2] * b[2])

div(a, b) == Rat(a[1] * b[2], a[2] * b[1])

neg(a) == <<-a[1], a[2]>>

lt(a, b) == a[1] * b[2] < b[1] * a[2]

abs(a) == <<Abs(a[1]), a[2]>>

\* math.recip: 1 / value
recip(value) == div(One, value)

\* math.sincos: [Math.sin(value), Math.cos(value)].  An angle is represented
\* by t = tan(value / 2), a rational, so that sin and cos are the rationals
\* 2t / (1 + t^2) and (1 - t^2) / (1 + t^2); t = 0 is the angle 0 and the
\* infinite t = <<1, 0>> is the half turn, with sine 0 and cosine -1.
sincos(value) ==
    LET t == value.tanHalf
    IN  IF t[2] = 0 THEN <<Zero, Num(-1)>>
        ELSE <<div(mul(Num(2), t), add(One, mul(t, t))),
               div(sub(One, mul(t, t)), add(One, mul(t, t)))>>

\* radians / 2, for an angle given by tan(radians / 4)
Half(radians) == [tanHalf |-> radians]

\* math.epsilon = 1E-8
epsilon == Rat(1, 100000000)

(***************************************************************************)
(* ../debug: assert(cond, msg) throws unless cond holds, panic(msg) always *)
(* throws.  A call that throws returns "throw".                            *)
(***************************************************************************)
assert(cond) == cond

panic(h) == [h |-> h, r |-> "throw"]

Throw(h) == [h |-> h, r |-> "throw"]

Return(h, r) == [h |-> h, r |-> r]

(***************************************************************************)
(* Object identities.  A matrix object owns its column objects.            *)
(***************************************************************************)
c0(m) == m \o ".c0"

c1(m) == m \o ".c1"

c2(m) == m \o ".c2"

Vec2(x, y) == [x |-> x, y |-> y]

Vec3(x, y, z) == [x |-> x, y |-> y, z |-> z]

Vec4(x, y, z, w) == [x |-> x, y |-> y, z |-> z, w |-> w]

(***************************************************************************)
(* vec2 (statics that write into `out`).                                   *)
(***************************************************************************)
vec2_set(h, target, x, y) == [h EXCEPT ![target] = [@ EXCEPT !.x = x, !.y = y]]

(***************************************************************************)
(* vec3.                                                                   *)
(***************************************************************************)
vec3_set(h, v, x, y, z) == [h EXCEPT ![v] = [@ EXCEPT !.x = x, !.y = y, !.z = z]]

vec3_add(h, lhs, rhs, out) ==
    vec3_set(h, out, add(h[lhs].x, h[rhs].x), add(h[lhs].y, h[rhs].y), add(h[lhs].z, h[rhs].z))

vec3_sub(h, lhs, rhs, out) ==
    vec3_set(h, out, sub(h[lhs].x, h[rhs].x), sub(h[lhs].y, h[rhs].y), sub(h[lhs].z, h[rhs].z))

vec3_mul(h, lhs, rhs, out) ==
    vec3_set(h, out, mul(h[lhs].x, h[rhs].x), mul(h[lhs].y, h[rhs].y), mul(h[lhs].z, h[rhs].z))

vec3_scale(h, lhs, rhs, out) ==
    vec3_set(h, out, mul(h[lhs].x, rhs), mul(h[lhs].y, rhs), mul(h[lhs].z, rhs))

vec3_dot(h, lhs, rhs) ==
    add(add(mul(h[lhs].x, h[rhs].x), mul(h[lhs].y, h[rhs].y)), mul(h[lhs].z, h[rhs].z))

vec3_cross(h, lhs, rhs, out) ==
    vec3_set(h, out,
        sub(mul(h[lhs].y, h[rhs].z), mul(h[lhs].z, h[rhs].y)),
        sub(mul(h[lhs].z, h[rhs].x), mul(h[lhs].x, h[rhs].z)),
        sub(mul(h[lhs].x, h[rhs].y), mul(h[lhs].y, h[rhs].x)))

vec3_toArray(h, v) == <<h[v].x, h[v].y, h[v].z>>

\* a variant of Vec3.add that returns the sum in a new vector
Vec3_add_pure(h, this, rhs) == Return(vec3_add(h, this, rhs, "add.new"), "add.new")

\* Vec3.add(rhs): vec3.add(this, rhs, this); vec3.set returns its target
Vec3_add(h, this, rhs) == Return(vec3_add(h, this, rhs, this), this)

Vec3_sub(h, this, rhs) == Return(vec3_sub(h, this, rhs, this), this)

Vec3_mul(h, this, rhs) == Return(vec3_mul(h, this, rhs, this), this)

Vec3_scale(h, this, scale) == Return(vec3_scale(h, this, scale, this), this)

\* out ?? vec3(): an omitted out is a newly allocated object
OrNew(out, new) == IF out = "undefined" THEN new ELSE out

vec3_project(h, lhs, rhs, out) ==
    LET o == OrNew(out, "project.new")
    IN  Return(vec3_scale(h, rhs, div(vec3_dot(h, lhs, rhs), vec3_dot(h, rhs, rhs)), o), o)

\* the projection is written into out, and then subtracted from lhs
vec3_reject(h, lhs, rhs, out) ==
    LET p == vec3_project(h, lhs, rhs, out)
        o == OrNew(out, "reject.new")
    IN  Return(vec3_sub(p.h, lhs, p.r, o), o)

\* Vec3.reject(rhs, out?): out ?? this
Vec3_reject(h, this, rhs, out) == vec3_reject(h, this, rhs, OrNew(out, this))

(***************************************************************************)
(* vec4.                                                                   *)
(***************************************************************************)
vec4_set(h, v, x, y, z, w) ==
    [h EXCEPT ![v] = [@ EXCEPT !.x = x, !.y = y, !.z = z, !.w = w]]

vec4_sub(h, lhs, rhs, out) ==
    vec4_set(h, out, sub(h[lhs].x, h[rhs].x), sub(h[lhs].y, h[rhs].y),
                     sub(h[lhs].z, h[rhs].z), sub(h[lhs].w, h[rhs].w))

vec4_scale(h, lhs, rhs, out) ==
    vec4_set(h, out, mul(h[lhs].x, rhs), mul(h[lhs].y, rhs), mul(h[lhs].z, rhs), mul(h[lhs].w, rhs))

vec4_dot(h, lhs, rhs) ==
    add(add(add(mul(h[lhs].x, h[rhs].x), mul(h[lhs].y, h[rhs].y)), mul(h[lhs].z, h[rhs].z)),
        mul(h[lhs].w, h[rhs].w))

vec4_project(h, lhs, rhs, out) ==
    LET o == OrNew(out, "project.new")
    IN  Return(vec4_scale(h, rhs, div(vec4_dot(h, lhs, rhs), vec4_dot(h, rhs, rhs)), o), o)

vec4_reject(h, lhs, rhs, out) ==
    LET p == vec4_project(h, lhs, rhs, out)
        o == OrNew(out, "reject.new")
    IN  Return(vec4_sub(p.h, lhs, p.r, o), o)

\* Vec4.reject(rhs, out?): out ?? this
Vec4_reject(h, this, rhs, out) == vec4_reject(h, this, rhs, OrNew(out, this))

(***************************************************************************)
(* mat2 (class snapshot: createImpl(class Mat2Impl)).                      *)
(***************************************************************************)
mat2_set(h, m, a0, a1, a2, a3) ==
    LET h1 == [h  EXCEPT ![c0(m)] = [@ EXCEPT !.x = a0, !.y = a1]]
    IN  [h1 EXCEPT ![c1(m)] = [@ EXCEPT !.x = a2, !.y = a3]]

\* mat2(): the identity, written into the newly allocated object `m`
mat2_identity(h, m) == mat2_set(h, m, One, Zero, Zero, One)

mat2_copy(h, a, b) ==
    Return(mat2_set(h, a, h[c0(b)].x, h[c0(b)].y, h[c1(b)].x, h[c1(b)].y), a)

mat2_fromCols(h, x, y, out) ==
    Return(mat2_set(h, out, h[x].x, h[x].y, h[y].x, h[y].y), out)

\* a variant of mat2.col that wraps the index instead of rejecting it
mat2_col_wrap(h, m, index) ==
    IF index % 2 = 0 THEN Return(h, c0(m)) ELSE Return(h, c1(m))

mat2_col(h, m, index) ==
    CASE index = 0 -> Return(h, c0(m))
      [] index = 1 -> Return(h, c1(m))
      [] OTHER -> panic(h)

\* the row is a newly created vec2
mat2_row(h, m, index) ==
    CASE index = 0 -> Return(vec2_set(h, "row.new", h[c0(m)].x, h[c1(m)].x), "row.new")
      [] index = 1 -> Return(vec2_set(h, "row.new", h[c0(m)].y, h[c1(m)].y), "row.new")
      [] OTHER -> panic(h)

mat2_det(h, m) == sub(mul(h[c0(m)].x, h[c1(m)].y), mul(h[c0(m)].y, h[c1(m)].x))

mat2_vmul2(h, lhs, rhs, out) ==
    Return(vec2_set(h, out,
               add(mul(h[c0(lhs)].x, h[rhs].x), mul(h[c1(lhs)].x, h[rhs].y)),
               add(mul(h[c0(lhs)].y, h[rhs].x), mul(h[c1(lhs)].y, h[rhs].y))), out)

\* a variant of mat2.mul that writes the columns of out as it goes
mat2_mul_direct(h, lhs, rhs, out) ==
    LET a == mat2_vmul2(h,   lhs, c0(rhs), c0(out))
        b == mat2_vmul2(a.h, lhs, c1(rhs), c1(out))
    IN  Return(b.h, out)

mat2_mul(h, lhs, rhs, out) ==
    LET a == mat2_vmul2(h,   lhs, c0(rhs), "mat2.v1")
        b == mat2_vmul2(a.h, lhs, c1(rhs), "mat2.v2")
    IN  mat2_fromCols(b.h, a.r, b.r, out)

\* a variant of mat2.inv that decides singularity within epsilon
mat2_inv_epsilon(h, m, out) ==
    LET det == mat2_det(h, m) IN
    IF ~assert(~lt(abs(det), epsilon)) THEN Throw(h)
    ELSE LET inv == recip(det)
             h1  == vec2_set(h,  "mat2.v1", mul(inv, h[c1(m)].y), mul(neg(inv), h[c0(m)].y))
             h2  == vec2_set(h1, "mat2.v2", mul(neg(inv), h[c1(m)].x), mul(inv, h[c0(m)].x))
         IN  mat2_fromCols(h2, "mat2.v1", "mat2.v2", out)

mat2_inv(h, m, out) ==
    LET det == mat2_det(h, m) IN
    IF ~assert(det # Zero) THEN Throw(h)
    ELSE LET inv == recip(det)
             h1  == vec2_set(h,  "mat2.v1", mul(inv, h[c1(m)].y), mul(neg(inv), h[c0(m)].y))
             h2  == vec2_set(h1, "mat2.v2", mul(neg(inv), h[c1(m)].x), mul(inv, h[c0(m)].x))
         IN  mat2_fromCols(h2, "mat2.v1", "mat2.v2", out)

(***************************************************************************)
(* mat3 (class snapshot: createImpl(class Mat3Impl)).                      *)
(***************************************************************************)
mat3_set(h, m, a0, a1, a2, a3, a4, a5, a6, a7, a8) ==
    LET h1 == vec3_set(h,  c0(m), a0, a1, a2)
        h2 == vec3_set(h1, c1(m), a3, a4, a5)
    IN  vec3_set(h2, c2(m), a6, a7, a8)

\* mat3(): the identity, written into the newly allocated object `m`
mat3_identity(h, m) == mat3_set(h, m, One, Zero, Zero, Zero, One, Zero, Zero, Zero, One)

\* mat3.zero(): new Mat3(0, ..., 0), written into the new object `m`
mat3_zero(h, m) == mat3_set(h, m, Zero, Zero, Zero, Zero, Zero, Zero, Zero, Zero, Zero)

mat3_fromCols(h, x, y, z, out) ==
    Return(mat3_set(h, out,
               h[x].x, h[x].y, h[x].z,
               h[y].x, h[y].y, h[y].z,
               h[z].x, h[z].y, h[z].z), out)

mat3_copy(h, a, b) ==
    Return(mat3_set(h, a,
               h[c0(b)].x, h[c0(b)].y, h[c0(b)].z,
               h[c1(b)].x, h[c1(b)].y, h[c1(b)].z,
               h[c2(b)].x, h[c2(b)].y, h[c2(b)].z), a)

\* Mat3.copy(m): mat2.copy(this, m)
Mat3_copy(h, this, m) == mat2_copy(h, this, m)

mat3_col(h, m, index) ==
    CASE index = 0 -> Return(h, c0(m))
      [] index = 1 -> Return(h, c1(m))
      [] index = 2 -> Return(h, c2(m))
      [] OTHER -> panic(h)

\* the row is a newly created vec3
mat3_row(h, m, index) ==
    CASE index = 0 -> Return(vec3_set(h, "row.new", h[c0(m)].x, h[c1(m)].x, h[c2(m)].x), "row.new")
      [] index = 1 -> Return(vec3_set(h, "row.new", h[c0(m)].y, h[c1(m)].y, h[c2(m)].y), "row.new")
      [] index = 2 -> Return(vec3_set(h, "row.new", h[c0(m)].z, h[c1(m)].z, h[c2(m)].z), "row.new")
      [] OTHER -> panic(h)

\* types/mat3.ts (object-literal snapshot): col(self, index)
mat3ts_col(h, self, index) ==
    CASE index = 0 -> Return(h, c0(self))
      [] index = 1 -> Return(h, c1(self))
      [] index = 2 -> Return(h, c1(self))
      [] OTHER -> panic(h)

mat3ts_row(h, self, index) ==
    CASE index = 0 -> Return(vec3_set(h, "row.new", h[c0(self)].x, h[c1(self)].x, h[c2(self)].x), "row.new")
      [] index = 1 -> Return(vec3_set(h, "row.new", h[c0(self)].y, h[c1(self)].y, h[c2(self)].y), "row.new")
      [] index = 2 -> Return(vec3_set(h, "row.new", h[c0(self)].z, h[c1(self)].z, h[c2(self)].z), "row.new")
      [] OTHER -> panic(h)

\* a variant of mat3.vmul3 that adds what the scratch v4 holds on entry
\* instead of the second term
mat3_vmul3_stale(h, lhs, rhs, out) ==
    LET h1 == vec3_scale(h,  c0(lhs), h[rhs].x,  out)
        h3 == vec3_add(h1, out, "mat3.v4", out)
        h4 == vec3_scale(h3, c2(lhs), h3[rhs].z, "mat3.v4")
        h5 == vec3_add(h4, out, "mat3.v4", out)
    IN  Return(h5, out)

\* out is written by the first scale, before rhs.y, rhs.z, lhs.c1 and lhs.c2
\* are read
mat3_vmul3(h, lhs, rhs, out) ==
    LET h1 == vec3_scale(h,  c0(lhs), h[rhs].x,  out)
        h2 == vec3_scale(h1, c1(lhs), h1[rhs].y, "mat3.v4")
        h3 == vec3_add(h2, out, "mat3.v4", out)
        h4 == vec3_scale(h3, c2(lhs), h3[rhs].z, "mat3.v4")
        h5 == vec3_add(h4, out, "mat3.v4", out)
    IN  Return(h5, out)

\* a variant of mat3.mul that multiplies in the opposite order
mat3_mul_reversed(h, lhs, rhs, out) ==
    LET a == mat3_vmul3(h,   rhs, c0(lhs), "mat3.v1")
        b == mat3_vmul3(a.h, rhs, c1(lhs), "mat3.v2")
        c == mat3_vmul3(b.h, rhs, c2(lhs), "mat3.v3")
    IN  mat3_fromCols(c.h, a.r, b.r, c.r, out)

mat3_mul(h, lhs, rhs, out) ==
    LET a == mat3_vmul3(h,   lhs, c0(rhs), "mat3.v1")
        b == mat3_vmul3(a.h, lhs, c1(rhs), "mat3.v2")
        c == mat3_vmul3(b.h, lhs, c2(rhs), "mat3.v3")
    IN  mat3_fromCols(c.h, a.r, b.r, c.r, out)

\* out defaults to a newly allocated mat3()
mat3_transpose(h, m, out) ==
    LET h1 == vec3_set(h,  "mat3.v1", h[c0(m)].x, h[c1(m)].x, h[c2(m)].x)
        h2 == vec3_set(h1, "mat3.v2", h[c0(m)].y, h[c1(m)].y, h[c2(m)].y)
        h3 == vec3_set(h2, "mat3.v3", h[c0(m)].z, h[c1(m)].z, h[c2(m)].z)
    IN  mat3_fromCols(h3, "mat3.v1", "mat3.v2", "mat3.v3", out)

\* a variant of mat3.det that crosses c1 with c0
mat3_det_swapped(h, m) ==
    LET h1 == vec3_cross(h, c1(m), c0(m), "det.cross")
    IN  vec3_dot(h1, c2(m), "det.cross")

\* let cross = vec3.cross(m.c0, m.c1): a new vec3, the local "det.cross"
mat3_det(h, m) ==
    LET h1 == vec3_cross(h, c0(m), c1(m), "det.cross")
    IN  vec3_dot(h1, c2(m), "det.cross")

\* cr0, cr1, cr2, invDet are new vec3 objects local to the call; the
\* transpose is called without out, so its result is the new mat3 "inv.new"
\* a variant of mat3.inv that returns the scaled cross products as columns
mat3_inv_untransposed(h, m, out) ==
    LET det == mat3_det(h, m) IN
    IF ~assert(det # Zero) THEN Throw(h)
    ELSE LET h1 == vec3_cross(h,  c1(m), c2(m), "inv.cr0")
             h2 == vec3_cross(h1, c2(m), c0(m), "inv.cr1")
             h3 == vec3_cross(h2, c0(m), c1(m), "inv.cr2")
             h4 == vec3_set(h3, "inv.invDet", recip(det), recip(det), recip(det))
             h5 == vec3_mul(h4, "inv.cr0", "inv.invDet", "inv.cr0")
             h6 == vec3_mul(h5, "inv.cr1", "inv.invDet", "inv.cr1")
             h7 == vec3_mul(h6, "inv.cr2", "inv.invDet", "inv.cr2")
         IN  mat3_fromCols(mat3_identity(h7, "inv.new"), "inv.cr0", "inv.cr1", "inv.cr2", "inv.new")

mat3_inv(h, m, out) ==
    LET det == mat3_det(h, m) IN
    IF ~assert(det # Zero) THEN Throw(h)
    ELSE LET h1 == vec3_cross(h,  c1(m), c2(m), "inv.cr0")
             h2 == vec3_cross(h1, c2(m), c0(m), "inv.cr1")
             h3 == vec3_cross(h2, c0(m), c1(m), "inv.cr2")
             h4 == vec3_set(h3, "inv.invDet", recip(det), recip(det), recip(det))
             h5 == vec3_mul(h4, "inv.cr0", "inv.invDet", "inv.cr0")
             h6 == vec3_mul(h5, "inv.cr1", "inv.invDet", "inv.cr1")
             h7 == vec3_mul(h6, "inv.cr2", "inv.invDet", "inv.cr2")
             f  == mat3_fromCols(h7, "inv.cr0", "inv.cr1", "inv.cr2", out)
         IN  mat3_transpose(mat3_identity(f.h, "inv.new"), f.r, "inv.new")

(***************************************************************************)
(* quat.  quat.set is vec4.set; quat() is the identity (0, 0, 0, 1).       *)
(***************************************************************************)
quat_set(h, q, x, y, z, w) == vec4_set(h, q, x, y, z, w)

quat_identity(h, q) == quat_set(h, q, Zero, Zero, Zero, One)

\* a variant of quat.mul that multiplies in the opposite order
quat_mul_reversed(h, lhs, rhs, out) ==
    LET x0 == h[rhs].x  y0 == h[rhs].y  z0 == h[rhs].z  w0 == h[rhs].w
        x1 == h[lhs].x  y1 == h[lhs].y  z1 == h[lhs].z  w1 == h[lhs].w
    IN  Return(quat_set(h, out,
            sub(add(add(mul(w0, x1), mul(x0, w1)), mul(y0, z1)), mul(z0, y1)),
            add(add(sub(mul(w0, y1), mul(x0, z1)), mul(y0, w1)), mul(z0, x1)),
            add(sub(add(mul(w0, z1), mul(x0, y1)), mul(y0, x1)), mul(z0, w1)),
            sub(sub(sub(mul(w0, w1), mul(x0, x1)), mul(y0, y1)), mul(z0, z1))), out)

quat_mul(h, lhs, rhs, out) ==
    LET x0 == h[lhs].x  y0 == h[lhs].y  z0 == h[lhs].z  w0 == h[lhs].w
        x1 == h[rhs].x  y1 == h[rhs].y  z1 == h[rhs].z  w1 == h[rhs].w
    IN  Return(quat_set(h, out,
            sub(add(add(mul(w0, x1), mul(x0, w1)), mul(y0, z1)), mul(z0, y1)),
            add(add(sub(mul(w0, y1), mul(x0, z1)), mul(y0, w1)), mul(z0, x1)),
            add(sub(add(mul(w0, z1), mul(x0, y1)), mul(y0, x1)), mul(z0, w1)),
            sub(sub(sub(mul(w0, w1), mul(x0, x1)), mul(y0, y1)), mul(z0, z1))), out)

\* a variant of quat.conj that negates w as well
quat_conj_all(h, q, out) ==
    Return(quat_set(h, out, neg(h[q].x), neg(h[q].y), neg(h[q].z), neg(h[q].w)), out)

quat_conj(h, q, out) ==
    Return(quat_set(h, out, neg(h[q].x), neg(h[q].y), neg(h[q].z), h[q].w), out)

\* vec4.len2, which quat.len2 is
vec4_len2(h, v) ==
    add(add(add(mul(h[v].x, h[v].x), mul(h[v].y, h[v].y)), mul(h[v].z, h[v].z)),
        mul(h[v].w, h[v].w))

quat_fromRotationX(h, radians, out) ==
    LET sc == sincos(Half(radians))
    IN  Return(quat_set(h, out, sc[1], Zero, Zero, sc[2]), out)

quat_fromRotationY(h, radians, out) ==
    LET sc == sincos(Half(radians))
    IN  Return(quat_set(h, out, Zero, sc[1], Zero, sc[2]), out)

quat_fromRotationZ(h, radians, out) ==
    LET sc == sincos(Half(radians))
    IN  Return(quat_set(h, out, Zero, Zero, sc[1], sc[2]), out)

\* Quat.mul(rhs): quat.mul(this, rhs, this)
Quat_mul(h, this, rhs) == quat_mul(h, this, rhs, this)

EulerRot == {"ZYX", "ZXY", "YXZ", "YZX", "XYZ", "XZY"}

\* quat.mul(rotZ(az, q3), rotY(by, q1).mul(rotX(cx, q2)), out)
EulerCompose(h, az, by, cx, out) ==
    LET z  == quat_fromRotationZ(h,   az, "quat.q3")
        y  == quat_fromRotationY(z.h, by, "quat.q1")
        x  == quat_fromRotationX(y.h, cx, "quat.q2")
        yx == Quat_mul(x.h, y.r, x.r)
    IN  quat_mul(yx.h, z.r, yx.r, out)

quat_fromEuler(h, rot, euler, out) ==
    CASE euler = "ZYX" -> EulerCompose(h, h[rot].x, h[rot].y, h[rot].z, out)
      [] euler = "ZXY" -> EulerCompose(h, h[rot].x, h[rot].z, h[rot].y, out)
      [] euler = "YXZ" -> EulerCompose(h, h[rot].z, h[rot].x, h[rot].y, out)
      [] euler = "YZX" -> EulerCompose(h, h[rot].y, h[rot].x, h[rot].z, out)
      [] euler = "XYZ" -> EulerCompose(h, h[rot].z, h[rot].y, h[rot].x, out)
      [] euler = "XZY" -> EulerCompose(h, h[rot].y, h[rot].z, h[rot].y, out)
      [] OTHER -> panic(h)

\* the i-th argument of a call was passed (it is not undefined)
Given(args, i) == i <= Len(args)

\* quat.create(x, y, z, w = 1): the default of w is applied before the
\* body runs, so in the last argument `w ?? vw` w is never undefined
quat_create(h, args, new) ==
    LET w == IF Given(args, 4) THEN args[4] ELSE One
        v == IF Given(args, 1) THEN args[1] ELSE Zero
        vw == IF Given(args, 1) THEN args[1] ELSE One
        x == IF Given(args, 1) THEN args[1] ELSE v
        y == IF Given(args, 2) THEN args[2] ELSE v
        z == IF Given(args, 3) THEN args[3] ELSE v
    IN  Return([h EXCEPT ![new] = Vec4(x, y, z, w)], new)

quat_zero(h, new) == quat_create(h, <<Zero, Zero, Zero, Zero>>, new)

quat_new_identity(h, new) == quat_create(h, <<Zero, Zero, Zero, One>>, new)

(***************************************************************************)
(* Rotations from an axis and an angle.                                    *)
(***************************************************************************)
\* an angle given by t = tan(radians / 2)
Rad(t) == [tanHalf |-> t]

vec3_len2(h, v) == add(add(mul(h[v].x, h[v].x), mul(h[v].y, h[v].y)), mul(h[v].z, h[v].z))

\* vec3.isNormalized: Math.abs(vec3.len2(v) - 1) <= epsilon
vec3_isNormalized(h, v) == ~lt(epsilon, abs(sub(vec3_len2(h, v), One)))

\* mat3.fromAxisAngle(axis, radians, out); vec3.scale(axis, sin) and
\* vec3.mul(axis, axis) write to new vectors
mat3_fromAxisAngle(h, axis, radians, out) ==
    IF ~assert(vec3_isNormalized(h, axis)) THEN Throw(h)
    ELSE LET sc == sincos(radians)
             sin == sc[1]
             cos == sc[2]
             ha == vec3_scale(h, axis, sin, "scale.new")
             xs == vec3_toArray(ha, "scale.new")
             xyz == vec3_toArray(ha, axis)
             hb == vec3_mul(ha, axis, axis, "mul.new")
             sq == vec3_toArray(hb, "mul.new")
             omc == sub(One, cos)
             xyomc == mul(mul(xyz[1], xyz[2]), omc)
             xzomc == mul(mul(xyz[1], xyz[3]), omc)
             yzomc == mul(mul(xyz[2], xyz[3]), omc)
             h1 == vec3_set(hb, "mat3.v1", add(mul(sq[1], omc), cos), add(xyomc, xs[3]),
                            sub(xzomc, xs[2]))
             h2 == vec3_set(h1, "mat3.v2", sub(xyomc, xs[3]), add(mul(sq[2], omc), cos),
                            add(yzomc, xs[1]))
             h3 == vec3_set(h2, "mat3.v3", add(xzomc, xs[2]), sub(yzomc, xs[1]),
                            add(mul(sq[3], omc), cos))
         IN  mat3_fromCols(h3, "mat3.v1", "mat3.v2", "mat3.v3", out)

\* quat.fromAxisAngle(axis, radians, out): sincos(radians / 2), radians
\* given by tan(radians / 4)
quat_fromAxisAngle(h, axis, radians, out) ==
    LET sc == sincos(Half(radians))
        s == sc[1]
        c == sc[2]
    IN  Return(quat_set(h, out, mul(h[axis].x, s), mul(h[axis].y, s), mul(h[axis].z, s), c), out)

(***************************************************************************)
(* 2D transforms through a 3x3 matrix.  The scratch v1, v2 of mat3 are     *)
(* vec3 objects used as 2D vectors; m1 is a mat2.                          *)
(***************************************************************************)
\* vec3.xy(v, out): vec2.set(out ?? vec2(), v.x, v.y)
vec3_xy(h, v, out) ==
    LET o == OrNew(out, "xy.new")
    IN  Return(vec2_set(h, o, h[v].x, h[v].y), o)

\* vec2.add(lhs, rhs, out): vec2.set(out ?? vec2(), ...)
vec2_add(h, lhs, rhs, out) ==
    LET o == OrNew(out, "add.new")
    IN  Return(vec2_set(h, o, add(h[lhs].x, h[rhs].x), add(h[lhs].y, h[rhs].y)), o)

\* a variant of mat3.transformVec2 that applies the transposed 2x2 block
mat3_transformVec2_rows(h, m, rhs, out) ==
    LET h1 == vec2_set(h,  "mat3.v1", h[c0(m)].x, h[c1(m)].x)
        h2 == vec2_set(h1, "mat3.v2", h[c0(m)].y, h[c1(m)].y)
        f == mat2_fromCols(h2, "mat3.v1", "mat3.v2", "mat3.m1")
    IN  mat2_vmul2(f.h, f.r, rhs, out)

mat3_transformVec2(h, m, rhs, out) ==
    LET a == vec3_xy(h,   c0(m), "mat3.v1")
        b == vec3_xy(a.h, c1(m), "mat3.v2")
        f == mat2_fromCols(b.h, a.r, b.r, "mat3.m1")
    IN  mat2_vmul2(f.h, f.r, rhs, out)

\* mat3.transformVec2(m, rhs) is called without out: its result is the new
\* vec2 "tv.new"; vec3.xy(m.c2) is the new vec2 "xy.new"
mat3_transformPoint2(h, m, rhs, out) ==
    LET t == mat3_transformVec2(vec2_set(h, "tv.new", Zero, Zero), m, rhs, "tv.new")
        x == vec3_xy(t.h, c2(m), "undefined")
    IN  vec2_add(x.h, t.r, x.r, out)

\* types/mat3.ts: transformPoint2(self, rhs, out = vec2()) does not pass out
\* on to vec2.add, whose result is the new vec2 "add.new"
mat3ts_transformPoint2(h, m, rhs, out) ==
    LET t == mat3_transformVec2(vec2_set(h, "tv.new", Zero, Zero), m, rhs, "tv.new")
        x == vec3_xy(t.h, c2(m), "undefined")
    IN  vec2_add(x.h, t.r, x.r, "undefined")

(***************************************************************************)
(* Lengths, normalisation and the axis of a quaternion.  A number with     *)
(* denominator 0 is an infinity: recip(0) = <<1, 0>>.                      *)
(***************************************************************************)
isFinite(value) == value[2] # 0

\* the integer square root of a perfect square
Isqrt(n) == CHOOSE k \in 0..n : k * k = n

HasSqrt(value) ==
    /\ value[1] >= 0
    /\ \E k \in 0..value[1] : k * k = value[1]
    /\ \E k \in 0..value[2] : k * k = value[2]

\* math.sqrt, exact on the squares of rationals
sqrt(value) == <<Isqrt(value[1]), Isqrt(value[2])>>

\* math.rsqrt: recip(sqrt(value))
rsqrt(value) == recip(sqrt(value))

\* value < epsilon2, where epsilon2 = epsilon * epsilon = 1E-16, decided
\* without forming 10^16
lt_epsilon2(value) == value[1] <= ((value[2] - 1) \div epsilon[2]) \div epsilon[2]

\* 2 * Math.acos(w): NaN for w outside [-1, 1], else the angle whose half
\* has cosine w
twice_acos(w) == [nan |-> lt(One, abs(w)), cosHalf |-> w]

vec3_len(h, v) == sqrt(vec3_len2(h, v))

vec4_len(h, v) == sqrt(vec4_len2(h, v))

vec4_rlen(h, v) == rsqrt(vec4_len2(h, v))

\* vec4.normalize(v, out): vec4.scale(v, recip(vec4.len(v)), out)
vec4_normalize(h, v, out) ==
    LET o == OrNew(out, "vnew4")
    IN  Return(vec4_scale(h, v, recip(vec4_len(h, v)), o), o)

vec4_normalizeSafe(h, v, out) ==
    LET rcp == vec4_rlen(h, v)
        o == OrNew(out, "vnew4")
    IN  IF lt(Zero, rcp) /\ isFinite(rcp)
        THEN vec4_normalize(h, v, out)
        ELSE Return(vec4_set(h, o, Zero, Zero, Zero, Zero), o)

quat_copy(h, a, b) == Return(quat_set(h, a, h[b].x, h[b].y, h[b].z, h[b].w), a)

\* quat.fromScaledAxis(v, out).  `identity` is the module constant; the
\* other branch calls quat.fromAxisAngle without out, so its result is the
\* new quaternion "qnew2", and passes len as the angle
quat_fromScaledAxis(h, v, out) ==
    LET len == vec3_len(h, v)
    IN  IF len = Zero
        THEN quat_copy(h, out, "quat.identity")
        ELSE quat_fromAxisAngle(quat_identity(vec3_scale(h, v, div(One, len), "quat.v1"), "qnew2"),
                                "quat.v1", len, "qnew2")

\* quat.toAxisAngle(q, out): returns [axis, radians]
quat_toAxisAngle(h, q, out) ==
    LET x == h[q].x  y == h[q].y  z == h[q].z  w == h[q].w
        angle == twice_acos(w)
        d == sub(One, mul(w, w))
        s == IF lt(d, Zero) THEN Zero ELSE d
        o == OrNew(out, "vnew")
    IN  IF lt_epsilon2(s)
        THEN Return(vec3_set(h, o, One, Zero, Zero), [axis |-> o, radians |-> angle])
        ELSE LET s2 == sqrt(s)
             IN  Return(vec3_set(h, o, div(x, s2), div(y, s2), div(z, s2)),
                        [axis |-> o, radians |-> angle])

(***************************************************************************)
(* Projection and reflection in the plane: the vec2 statics, which write   *)
(* into `out`, and the num2 functions, which return new plain values.      *)
(***************************************************************************)
vec2_dot(h, lhs, rhs) == add(mul(h[lhs].x, h[rhs].x), mul(h[lhs].y, h[rhs].y))

vec2_isNormalized(h, target) == ~lt(epsilon, abs(sub(vec2_dot(h, target, target), One)))

vec2_sub(h, lhs, rhs, out) ==
    LET o == OrNew(out, "sub.new")
    IN  Return(vec2_set(h, o, sub(h[lhs].x, h[rhs].x), sub(h[lhs].y, h[rhs].y)), o)

vec2_scale(h, lhs, rhs, out) ==
    LET o == OrNew(out, "scale.new")
    IN  Return(vec2_set(h, o, mul(h[lhs].x, rhs), mul(h[lhs].y, rhs)), o)

\* vec2.project(lhs, rhs, out): scale(rhs, dot(lhs, rhs), out ?? create())
vec2_project(h, lhs, rhs, out) ==
    vec2_scale(h, rhs, vec2_dot(h, lhs, rhs), OrNew(out, "project.new"))

\* vec2.reflect(lhs, rhs, out): the projection goes into the scratch v1
vec2_reflect(h, lhs, rhs, out) ==
    IF ~assert(vec2_isNormalized(h, rhs)) THEN Throw(h)
    ELSE LET p == vec2_project(h, lhs, rhs, "vec2.v1")
         IN  vec2_sub(p.h, lhs, p.r, OrNew(out, "reflect.new"))

num2_dot(lhs, rhs) == add(mul(lhs.x, rhs.x), mul(lhs.y, rhs.y))

num2_sub(lhs, rhs) == Vec2(sub(lhs.x, rhs.x), sub(lhs.y, rhs.y))

num2_scalar(lhs, rhs) == Vec2(mul(lhs.x, rhs), mul(lhs.y, rhs))

num2_project(lhs, rhs) == num2_scalar(rhs, num2_dot(lhs, rhs))

num2_reflect(lhs, rhs) == num2_sub(lhs, num2_project(lhs, rhs))

(***************************************************************************)
(* The named constant vectors of vec2, vec3 and vec4.  Each call creates   *)
(* a new vector.                                                           *)
(***************************************************************************)
\* vec4.create(x, y, z, w): new Vec4(x, y ?? x, z ?? x, w ?? x)
vec4_create(h, args, new) ==
    LET x == args[1]
        y == IF Given(args, 2) THEN args[2] ELSE x
        z == IF Given(args, 3) THEN args[3] ELSE x
        w == IF Given(args, 4) THEN args[4] ELSE x
    IN  Return([h EXCEPT ![new] = Vec4(x, y, z, w)], new)

vec4_zero(h, new) == vec4_create(h, <<Zero>>, new)

vec4_one(h, new) == vec4_create(h, <<One>>, new)

vec4_up(h, new) == vec4_create(h, <<One, Zero, Zero, Zero>>, new)

vec4_down(h, new) == vec4_create(h, <<Num(-1), Zero, Zero, Zero>>, new)

vec4_left(h, new) == vec4_create(h, <<Zero, Num(-1), Zero, Zero>>, new)

vec4_right(h, new) == vec4_create(h, <<Zero, One, Zero, Zero>>, new)

vec4_back(h, new) == vec4_create(h, <<Zero, Zero, Num(-1), Zero>>, new)

vec4_forward(h, new) == vec4_create(h, <<Zero, Zero, One, Zero>>, new)

\* vec3.create(x, y, z): new Vec3(x, y ?? x, z ?? x)
vec3_create(h, args, new) ==
    LET x == args[1]
        y == IF Given(args, 2) THEN args[2] ELSE x
        z == IF Given(args, 3) THEN args[3] ELSE x
    IN  Return([h EXCEPT ![new] = Vec3(x, y, z)], new)

vec3_zero(h, new) == vec3_create(h, <<Zero>>, new)

vec3_one(h, new) == vec3_create(h, <<One>>, new)

vec3_up(h, new) == vec3_create(h, <<Zero, One, Zero>>, new)

vec3_down(h, new) == vec3_create(h, <<Zero, Num(-1), Zero>>, new)

vec3_left(h, new) == vec3_create(h, <<Num(-1), Zero, Zero>>, new)

vec3_right(h, new) == vec3_create(h, <<One, Zero, Zero>>, new)

vec3_back(h, new) == vec3_create(h, <<Zero, Zero, Num(-1)>>, new)

vec3_forward(h, new) == vec3_create(h, <<Zero, Zero, One>>, new)

\* create(x = 0, y = x) of vec2
vec2_create(h, args, new) ==
    LET x == IF Given(args, 1) THEN args[1] ELSE Zero
        y == IF Given(args, 2) THEN args[2] ELSE x
    IN  Return([h EXCEPT ![new] = Vec2(x, y)], new)

vec2_up(h, new) == vec2_create(h, <<Zero, One>>, new)

vec2_down(h, new) == vec2_create(h, <<Zero, Num(-1)>>, new)

vec2_left(h, new) == vec2_create(h, <<Num(-1), Zero>>, new)

vec2_right(h, new) == vec2_create(h, <<One, Zero>>, new)

(***************************************************************************)
(* Rotations about the coordinate axes.  The constant column is a new      *)
(* vector ("axis.new"); the other two are the scratch vectors v1 and v2.   *)
(***************************************************************************)
mat3_fromRotationX(h, radians, out) ==
    LET sc == sincos(radians)
        sin == sc[1]
        cos == sc[2]
        h0 == vec3_right(h, "axis.new").h
        h1 == vec3_set(h0, "mat3.v1", Zero, cos, sin)
        h2 == vec3_set(h1, "mat3.v2", Zero, neg(sin), cos)
    IN  mat3_fromCols(h2, "axis.new", "mat3.v1", "mat3.v2", out)

\* a variant of mat3.fromRotationY that turns the other way
mat3_fromRotationY_clockwise(h, radians, out) ==
    LET sc == sincos(radians)
        sin == sc[1]
        cos == sc[2]
        h1 == vec3_set(h, "mat3.v1", cos, Zero, sin)
        h0 == vec3_up(h1, "axis.new").h
        h2 == vec3_set(h0, "mat3.v2", neg(sin), Zero, cos)
    IN  mat3_fromCols(h2, "mat3.v1", "axis.new", "mat3.v2", out)

mat3_fromRotationY(h, radians, out) ==
    LET sc == sincos(radians)
        sin == sc[1]
        cos == sc[2]
        h1 == vec3_set(h, "mat3.v1", cos, Zero, neg(sin))
        h0 == vec3_up(h1, "axis.new").h
        h2 == vec3_set(h0, "mat3.v2", sin, Zero, cos)
    IN  mat3_fromCols(h2, "mat3.v1", "axis.new", "mat3.v2", out)

mat3_fromRotationZ(h, radians, out) ==
    LET sc == sincos(radians)
        sin == sc[1]
        cos == sc[2]
        h1 == vec3_set(h, "mat3.v1", cos, sin, Zero)
        h2 == vec3_set(h1, "mat3.v2", neg(sin), cos, Zero)
        h0 == vec3_forward(h2, "axis.new").h
    IN  mat3_fromCols(h0, "mat3.v1", "mat3.v2", "axis.new", out)

(***************************************************************************)
(* Angles out of a quaternion.  An angle that is returned is represented   *)
(* by the tangent of its half, as in sincos: 0 is the angle 0, <<1, 0>>    *)
(* the half turn and NaN the result of Math.asin outside [-1, 1].  The     *)
(* square roots are exact, so these are applied where they are rational.   *)
(***************************************************************************)
NaN == <<0, 0>>

\* Math.atan2(y, x): tan(angle / 2) = y / (x + sqrt(x^2 + y^2))
atan2(y, x) ==
    IF y = Zero THEN (IF lt(x, Zero) THEN <<1, 0>> ELSE Zero)
    ELSE div(y, add(x, sqrt(add(mul(x, x), mul(y, y)))))

\* Math.asin(v): tan(angle / 2) = v / (1 + sqrt(1 - v^2))
asin(v) ==
    IF lt(One, abs(v)) THEN NaN
    ELSE div(v, add(One, sqrt(sub(One, mul(v, v)))))

\* the arguments of the three Math.atan2 / Math.asin calls of quat.toEuler,
\* in the order they are passed to vec3.set; "none" for an unknown order
toEuler_terms(q, euler) ==
    LET x == q.x  y == q.y  z == q.z  w == q.w
        two(a) == mul(Num(2), a)
        xx == mul(x, x)  yy == mul(y, y)  zz == mul(z, z)  ww == mul(w, w)
        xy == mul(x, y)  xz == mul(x, z)  xw == mul(x, w)
        yz == mul(y, z)  yw == mul(y, w)  zw == mul(z, w)
        A(a, b) == [f |-> "atan2", y |-> a, x |-> b]
        S(a) == [f |-> "asin", y |-> a, x |-> One]
    IN  CASE euler = "ZXY" ->
               <<A(two(sub(xw, yz)), sub(One, two(add(xx, yy)))),
                 S(two(add(xy, zw))),
                 A(two(sub(xz, yw)), sub(One, two(add(yy, zz))))>>
          [] euler = "ZYX" ->
               <<A(two(sub(xw, yz)), sub(One, two(add(xx, yy)))),
                 A(two(add(xy, zw)), sub(One, two(add(xx, zz)))),
                 S(two(sub(xz, yw)))>>
          [] euler = "YZX" ->
               <<S(two(add(xw, yz))),
                 A(two(sub(zw, xy)), sub(One, two(add(yy, zz)))),
                 A(two(sub(xz, yw)), sub(One, two(add(xx, yy))))>>
          [] euler = "XZY" ->
               <<A(two(add(xw, yz)), sub(One, two(add(xx, yy)))),
                 S(two(sub(xy, zw))),
                 A(two(add(xz, yw)), sub(One, two(add(xx, zz))))>>
          [] euler = "YXZ" ->
               <<A(two(add(xz, yw)), add(sub(sub(ww, xx), yy), zz)),
                 S(mul(Num(-2), sub(yz, xw))),
                 A(two(add(xy, zw)), sub(add(sub(ww, xx), yy), zz))>>
          [] euler = "XYZ" ->
               <<A(two(add(xw, yz)), sub(One, two(add(xx, yy)))),
                 S(two(sub(xy, zw))),
                 A(two(add(xz, yw)), sub(One, two(add(xx, yy))))>>
          [] OTHER -> "none"

toEuler_angle(term) == IF term.f = "asin" THEN asin(term.y) ELSE atan2(term.y, term.x)

\* the square root the term takes is rational
RationalTerm(term) ==
    IF term.f = "asin" THEN lt(One, abs(term.y)) \/ HasSqrt(sub(One, mul(term.y, term.y)))
    ELSE HasSqrt(add(mul(term.x, term.x), mul(term.y, term.y)))

\* a variant of quat.toEuler that clears out before it looks at the order
quat_toEuler_cleared(h, q, euler, out) ==
    IF euler \notin EulerRot THEN panic(vec3_set(h, out, Zero, Zero, Zero))
    ELSE LET t == toEuler_terms(h[q], euler)
         IN  Return(vec3_set(h, out, toEuler_angle(t[1]), toEuler_angle(t[2]),
                             toEuler_angle(t[3])), out)

\* quat.toEuler(q, euler, out)
quat_toEuler(h, q, euler, out) ==
    IF euler \notin EulerRot THEN panic(h)
    ELSE LET t == toEuler_terms(h[q], euler)
         IN  Return(vec3_set(h, out, toEuler_angle(t[1]), toEuler_angle(t[2]),
                             toEuler_angle(t[3])), out)

vec4_isNormalized(h, v) == ~lt(epsilon, abs(sub(vec4_len2(h, v), One)))

\* quat.angle(lhs, rhs): Math.acos(Math.abs(quat.dot(lhs, rhs))) * 2.0.  The
\* number returned is held in the slot "angle.ret"
quat_angle(h, lhs, rhs) ==
    IF ~assert(vec4_isNormalized(h, lhs) /\ vec4_isNormalized(h, rhs)) THEN Throw(h)
    ELSE Return([h EXCEPT !["angle.ret"] = twice_acos(abs(vec4_dot(h, lhs, rhs)))], "angle.ret")

(***************************************************************************)
(* vec4.add and vec4.mul; the caller's `out ?? vec4()` is the object out.  *)
(***************************************************************************)
\* a variant of vec4.add that accumulates into lhs and returns the sum in out
vec4_add_assign(h, lhs, rhs, out) ==
    LET h1 == vec4_set(h, lhs, add(h[lhs].x, h[rhs].x), add(h[lhs].y, h[rhs].y),
                       add(h[lhs].z, h[rhs].z), add(h[lhs].w, h[rhs].w))
    IN  vec4_set(h1, out, h1[lhs].x, h1[lhs].y, h1[lhs].z, h1[lhs].w)

vec4_add(h, lhs, rhs, out) ==
    vec4_set(h, out, add(h[lhs].x, h[rhs].x), add(h[lhs].y, h[rhs].y),
                     add(h[lhs].z, h[rhs].z), add(h[lhs].w, h[rhs].w))

vec4_mul(h, lhs, rhs, out) ==
    vec4_set(h, out, mul(h[lhs].x, h[rhs].x), mul(h[lhs].y, h[rhs].y),
                     mul(h[lhs].z, h[rhs].z), mul(h[lhs].w, h[rhs].w))

(***************************************************************************)
(* quat.fromAxes.  The square root of a rational that is not a square is   *)
(* kept exact as a multiple of the root of a square-free integer:          *)
(* <<n, d, r>> is (n / d) * sqrt(r).  A product that is rational is the    *)
(* fraction <<n, d>> again.                                                *)
(***************************************************************************)
\* the largest k whose square divides m >= 1
SquarePart(m) ==
    CHOOSE k \in 1..m : m % (k * k) = 0 /\ \A j \in (k + 1)..m : m % (j * j) # 0

\* math.sqrt(value) as <<n, d, r>>; NaN below zero
sqrt_root(value) ==
    IF lt(value, Zero) THEN <<0, 0, 1>>
    ELSE IF value = Zero THEN <<0, 1, 1>>
    ELSE LET m == value[1] * value[2]
             k == SquarePart(m)
             q == Rat(k, value[2])
         IN  <<q[1], q[2], m \div (k * k)>>

\* 0.5 / s for a root s: 1 / (c * sqrt(r)) = sqrt(r) / (c * r); infinite for s = 0
half_over(s) ==
    IF s[2] = 0 THEN s
    ELSE IF s[1] = 0 THEN <<1, 0, 1>>
    ELSE LET q == div(Rat(1, 2), mul(<<s[1], s[2]>>, Num(s[3])))
         IN  <<q[1], q[2], s[3]>>

\* a * s for a rational a and a root s
times_root(a, s) ==
    IF s[2] = 0
    THEN (IF s[1] = 0 \/ a = Zero THEN NaN ELSE IF lt(a, Zero) THEN <<-1, 0>> ELSE <<1, 0>>)
    ELSE LET q == mul(a, <<s[1], s[2]>>)
         IN  IF q = Zero \/ s[3] = 1 THEN q ELSE <<q[1], q[2], s[3]>>

\* the branch quat.fromAxes takes and the value it passes to sqrt
fromAxes_branch(x, y, z) ==
    LET m00 == x.x  m11 == y.y  m22 == z.z
    IN  IF ~lt(Zero, m22)
        THEN LET dif10 == sub(m11, m00)
                 omm22 == sub(One, m22)
             IN  IF ~lt(Zero, dif10) THEN [name |-> "x", four |-> sub(omm22, dif10)]
                 ELSE [name |-> "y", four |-> add(omm22, dif10)]
        ELSE LET sum10 == add(m11, m00)
                 opm22 == add(One, m22)
             IN  IF ~lt(Zero, sum10) THEN [name |-> "z", four |-> sub(opm22, sum10)]
                 ELSE [name |-> "w", four |-> add(opm22, sum10)]

\* a variant of quat.fromAxes that always takes the last branch
quat_fromAxes_trace(h, x, y, z, out) ==
    LET m01 == h[x].y  m02 == h[x].z
        m10 == h[y].x  m12 == h[y].z
        m20 == h[z].x  m21 == h[z].y
        four == add(add(One, h[z].z), add(h[y].y, h[x].x))
        inv4 == half_over(sqrt_root(four))
    IN  Return(quat_set(h, out, times_root(sub(m12, m21), inv4),
                        times_root(sub(m20, m02), inv4), times_root(sub(m01, m10), inv4),
                        times_root(four, inv4)), out)

\* quat.fromAxes(x, y, z, out)
quat_fromAxes(h, x, y, z, out) ==
    LET m01 == h[x].y  m02 == h[x].z
        m10 == h[y].x  m12 == h[y].z
        m20 == h[z].x  m21 == h[z].y
        b == fromAxes_branch(h[x], h[y], h[z])
        four == b.four
        inv4 == half_over(sqrt_root(four))
    IN  CASE b.name = "x" ->
               Return(quat_set(h, out, times_root(four, inv4),
                               times_root(add(m01, m10), inv4), times_root(add(m02, m20), inv4),
                               times_root(sub(m12, m21), inv4)), out)
          [] b.name = "y" ->
               Return(quat_set(h, out, times_root(add(m01, m10), inv4),
                               times_root(four, inv4), times_root(add(m12, m21), inv4),
                               times_root(sub(m20, m02), inv4)), out)
          [] b.name = "z" ->
               Return(quat_set(h, out, times_root(add(m02, m20), inv4),
                               times_root(add(m12, m21), inv4), times_root(four, inv4),
                               times_root(sub(m01, m10), inv4)), out)
          [] b.name = "w" ->
               Return(quat_set(h, out, times_root(sub(m12, m21), inv4),
                               times_root(sub(m20, m02), inv4), times_root(sub(m01, m10), inv4),
                               times_root(four, inv4)), out)

\* quat.fromMat3(m, out)
quat_fromMat3(h, m, out) == quat_fromAxes(h, c0(m), c1(m), c2(m), out)

(***************************************************************************)
(* Matrices as objects that refer to their columns.  Here the heap maps a  *)
(* matrix object to the record [c0, c1, c2] of the vec3 objects its fields *)
(* refer to (the num3x3 interface), so that two matrices, or a matrix and  *)
(* a temporary, can share a column.                                        *)
(***************************************************************************)
\* new Mat3(...args): the fields are assigned three new vec3 objects
Mat3_constructor(h, m, v) ==
    [h EXCEPT ![m] = [c0 |-> c0(m), c1 |-> c1(m), c2 |-> c2(m)],
              ![c0(m)] = v[1], ![c1(m)] = v[2], ![c2(m)] = v[3]]

\* mat3.set(m, ...args): m.c0.x = args[0], ..., m.c2.z = args[8], in order
num3x3_set(h, m, a0, a1, a2, a3, a4, a5, a6, a7, a8) ==
    LET h1 == vec3_set(h,  h[m].c0, a0, a1, a2)
        h2 == vec3_set(h1, h[m].c1, a3, a4, a5)
    IN  vec3_set(h2, h[m].c2, a6, a7, a8)

\* a variant of mat3.fromCols that keeps the vectors passed in as columns
num3x3_fromCols_retained(h, x, y, z, out) ==
    Return([h EXCEPT ![out] = [c0 |-> x, c1 |-> y, c2 |-> z]], out)

\* mat3.fromCols(x, y, z, out)
num3x3_fromCols(h, x, y, z, out) ==
    Return(num3x3_set(h, out, h[x].x, h[x].y, h[x].z, h[y].x, h[y].y, h[y].z,
                      h[z].x, h[z].y, h[z].z), out)

\* mat3.transpose(m, out)
num3x3_transpose(h, m, out) ==
    LET a == h[h[m].c0]  b == h[h[m].c1]  c == h[h[m].c2]
        h1 == vec3_set(h,  "mat3.v1", a.x, b.x, c.x)
        h2 == vec3_set(h1, "mat3.v2", a.y, b.y, c.y)
        h3 == vec3_set(h2, "mat3.v3", a.z, b.z, c.z)
    IN  num3x3_fromCols(h3, "mat3.v1", "mat3.v2", "mat3.v3", out)

\* mat3.col(m, index)
num3x3_col(h, m, index) ==
    CASE index = 0 -> Return(h, h[m].c0)
      [] index = 1 -> Return(h, h[m].c1)
      [] index = 2 -> Return(h, h[m].c2)
      [] OTHER -> panic(h)

(***************************************************************************)
(* The signed angle in the plane.  The quotient passed to Math.acos is     *)
(* kept by its sign and its square, which are rational; the angle returned *)
(* is kept by its sign and its cosine.  Math.sqrt and the product and      *)
(* quotient of doubles are rounded: for parallel operands, whose exact     *)
(* quotient is 1 or -1, the computed one exceeds 1 in magnitude for the    *)
(* squared lengths in RoundsAboveOne.                                      *)
(***************************************************************************)
\* Math.sign
Sign(v) == IF lt(v, Zero) THEN -1 ELSE IF lt(Zero, v) THEN 1 ELSE 0

num2_cross(lhs, rhs) == sub(mul(lhs.x, rhs.y), mul(lhs.y, rhs.x))

num2_len2(self) == add(mul(self.x, self.x), mul(self.y, self.y))

\* the pairs (len2(l), len2(r)) of integer vectors with components up to 4
\* in magnitude for which |dot(l, r)| / (sqrt(len2(l)) * sqrt(len2(r))) of
\* parallel l, r, evaluated in IEEE 754 doubles, is 1.0000000000000002
RoundsAboveOne == {<<Num(13), Num(13)>>, <<Num(18), Num(18)>>}

NaNAngle == [nan |-> TRUE, sign |-> 0, cos |-> [sign |-> 0, square |-> Zero]]

ZeroAngle == [nan |-> FALSE, sign |-> 0, cos |-> [sign |-> 1, square |-> One]]

\* Math.acos(dot / (Math.sqrt(a2) * Math.sqrt(b2))): NaN for 0 / 0 and for a
\* quotient beyond 1 in magnitude
acos_quotient(dot, a2, b2) ==
    IF mul(a2, b2) = Zero THEN NaNAngle
    ELSE LET square == div(mul(dot, dot), mul(a2, b2))
         IN  IF lt(One, square) \/ (square = One /\ <<a2, b2>> \in RoundsAboveOne)
             THEN NaNAngle
             ELSE [nan |-> FALSE, sign |-> 1, cos |-> [sign |-> Sign(dot), square |-> square]]

\* angle * Math.sign(cross): NaN stays NaN, also when multiplied by 0
times_sign(angle, s) ==
    IF angle.nan THEN NaNAngle
    ELSE IF s = 0 \/ angle.cos = ZeroAngle.cos THEN ZeroAngle
    ELSE [angle EXCEPT !.sign = s]

\* num2.angle(lhs, rhs)
num2_angle(lhs, rhs) ==
    LET angle == acos_quotient(num2_dot(lhs, rhs), num2_len2(lhs), num2_len2(rhs))
    IN  times_sign(angle, Sign(num2_cross(lhs, rhs)))

\* vec2.angle(lhs, rhs), the same computation on objects.  The number
\* returned is held in the slot "angle.ret"
vec2_angle(h, lhs, rhs) ==
    LET angle == acos_quotient(vec2_dot(h, lhs, rhs), num2_len2(h[lhs]), num2_len2(h[rhs]))
        s == Sign(sub(mul(h[lhs].x, h[rhs].y), mul(h[lhs].y, h[rhs].x)))
    IN  Return([h EXCEPT !["angle.ret"] = times_sign(angle, s)], "angle.ret")

\* Vec2.angle(rhs): vec2.angle(this, rhs)
Vec2_angle(h, this, rhs) == vec2_angle(h, this, rhs)

(***************************************************************************)
(* Inputs.                                                                 *)
(***************************************************************************)
Entries == {Num(i) : i \in 0..MaxEntry}

SignedEntries == {Num(i) : i \in (-MaxEntry)..MaxEntry}

Vec2Vals == {Vec2(x, y) : x \in SignedEntries, y \in SignedEntries}

Vec3Vals == {Vec3(x, y, z) : x \in Entries, y \in Entries, z \in Entries}

Zero2 == Vec2(Zero, Zero)

Zero3 == Vec3(Zero, Zero, Zero)

\* diag(1/TinyDen, 1/TinyDen): its determinant is nonzero and below epsilon
TinyDen == 30000

TinyMat2 == <<Vec2(Rat(1, TinyDen), Zero), Vec2(Zero, Rat(1, TinyDen))>>

Mat2Vals == {<<a, b>> : a \in Vec2Vals, b \in Vec2Vals} \cup {TinyMat2}

\* second and third columns: dependent and independent choices
SecondCols == {Vec3(Zero, One, Zero), Vec3(One, One, Zero), Vec3(Zero, Num(2), One)}

ThirdCols == {Vec3(Zero, Zero, One), Vec3(One, Zero, One), Vec3(Num(-1), One, Num(3))}

Mat3Vals == {<<a, b, c>> : a \in Vec3Vals, b \in SecondCols, c \in ThirdCols}

Ident2 == <<Vec2(One, Zero), Vec2(Zero, One)>>

Ident3 == <<Vec3(One, Zero, Zero), Vec3(Zero, One, Zero), Vec3(Zero, Zero, One)>>

\* the value of the matrix object m in heap h, as a tuple of columns
M2(h, m) == <<h[c0(m)], h[c1(m)]>>

M3(h, m) == <<h[c0(m)], h[c1(m)], h[c2(m)]>>

Obj2(m, v) == (c0(m) :> v[1]) @@ (c1(m) :> v[2])

Obj3(m, v) == (c0(m) :> v[1]) @@ (c1(m) :> v[2]) @@ (c2(m) :> v[3])

Fill(ids, v) == [i \in ids |-> v]

NoCall == [op |-> "none", lhs |-> "none", rhs |-> "none", out |-> "none", idx |-> 0]

Call(op, lhs, rhs, out, idx) == [op |-> op, lhs |-> lhs, rhs |-> rhs, out |-> out, idx |-> idx]

Mat2Scratch == Fill({"mat2.v1", "mat2.v2"}, Zero2)

Mat3Scratch == Fill({"mat3.v1", "mat3.v2", "mat3.v3", "mat3.v4"}, Zero3)
                   @@ Obj2("mat3.m1", Ident2)

(***************************************************************************)
(* SpecInv: the inverse of a 2x2 matrix M and of a 3x3 matrix A, into a    *)
(* new object, into the distinct matrix N / B, or in place.                *)
(***************************************************************************)
InvLocals == Fill({"inv.cr0", "inv.cr1", "inv.cr2", "inv.invDet", "det.cross"}, Zero3)

Heap3Inv(a) ==
    Obj3("A", a) @@ Obj3("B", Ident3) @@ Obj3("new", Ident3) @@ Obj3("inv.new", Ident3)
        @@ Mat3Scratch @@ InvLocals

Heap2Inv(m) ==
    Obj2("M", m) @@ Obj2("N", Ident2) @@ Obj2("new2", Ident2) @@ Mat2Scratch

Has(id) == id \in DOMAIN heap

InitInv ==
    /\ \/ \E a \in Mat3Vals : heap = Heap3Inv(a)
       \/ \E m \in Mat2Vals : heap = Heap2Inv(m)
    /\ pre = heap
    /\ call = NoCall
    /\ ret = "none"

DoFrom(h0, op, lhs, rhs, out, idx, res) ==
    /\ pre' = h0
    /\ call' = Call(op, lhs, rhs, out, idx)
    /\ heap' = res.h
    /\ ret' = res.r

Do(op, lhs, rhs, out, idx, res) ==
    /\ pre' = heap
    /\ call' = Call(op, lhs, rhs, out, idx)
    /\ heap' = res.h
    /\ ret' = res.r

\* mat2.inv(m): out = mat2()
Mat2InvNew == Has("M.c0") /\ Do("mat2.inv", "M", "none", "new2", 0,
                 mat2_inv(mat2_identity(heap, "new2"), "M", "new2"))

\* mat2.inv(m, out)
Mat2InvOut == Has("M.c0") /\ Do("mat2.inv", "M", "none", "N", 0, mat2_inv(heap, "M", "N"))

\* Mat2.inv(): mat2.inv(this, this)
Mat2InvThis == Has("M.c0") /\ Do("Mat2.inv", "M", "none", "M", 0, mat2_inv(heap, "M", "M"))

\* mat3.inv(m): out = mat3()
Mat3InvNew == Has("A.c0") /\ Do("mat3.inv", "A", "none", "new", 0,
                 mat3_inv(mat3_identity(heap, "new"), "A", "new"))

\* mat3.inv(m, out)
Mat3InvOut == Has("A.c0") /\ Do("mat3.inv", "A", "none", "B", 0, mat3_inv(heap, "A", "B"))

\* Mat3.inv(): mat3.inv(this, this)
Mat3InvThis == Has("A.c0") /\ Do("Mat3.inv", "A", "none", "A", 0, mat3_inv(heap, "A", "A"))

NextInv ==
    \/ Mat2InvNew
    \/ Mat2InvOut
    \/ Mat2InvThis
    \/ Mat3InvNew
    \/ Mat3InvOut
    \/ Mat3InvThis

SpecInv == InitInv /\ [][NextInv]_vars

(***************************************************************************)
(* Operand ranges: an operation is applied while the entries of its        *)
(* operands are integers of magnitude at most MaxAbs.                      *)
(***************************************************************************)
MaxAbs == 1

Small(n) == n[2] = 1 /\ Abs(n[1]) <= MaxAbs

SmallObj(id) == \A f \in DOMAIN heap[id] : Small(heap[id][f])

SmallMat2(m) == SmallObj(c0(m)) /\ SmallObj(c1(m))

SmallMat3(m) == SmallObj(c0(m)) /\ SmallObj(c1(m)) /\ SmallObj(c2(m))

(***************************************************************************)
(* SpecVmul: the product of the 3x3 matrix A and the vector U, into a new  *)
(* vector, into the distinct vector W, into U itself, or into a column of  *)
(* A.                                                                      *)
(***************************************************************************)
\* the left operands: a few matrices with dependent and independent columns
VmulMats ==
    {<<a, b, c>> : a \in {Vec3(One, Zero, Zero), Vec3(One, One, Zero)},
                   b \in {Vec3(Zero, One, Zero), Vec3(One, One, Zero)},
                   c \in {Vec3(Zero, Zero, One), Vec3(One, Zero, One)}}

HeapVmul(a, u) ==
    Obj3("A", a) @@ ("U" :> u) @@ ("W" :> Zero3) @@ ("vnew" :> Zero3) @@ Mat3Scratch

InitVmul ==
    /\ \E a \in VmulMats, u \in Vec3Vals : heap = HeapVmul(a, u)
    /\ pre = heap
    /\ call = NoCall
    /\ ret = "none"

VmulOperands == SmallMat3("A") /\ SmallObj("U")

\* mat3.vmul3(lhs, rhs): out = vec3()
Vmul3New == VmulOperands /\ Do("mat3.vmul3", "A", "U", "vnew", 0,
               mat3_vmul3(vec3_set(heap, "vnew", Zero, Zero, Zero), "A", "U", "vnew"))

\* mat3.vmul3(lhs, rhs, out), out a vector distinct from the operands
Vmul3Out == VmulOperands /\ Do("mat3.vmul3", "A", "U", "W", 0, mat3_vmul3(heap, "A", "U", "W"))

\* mat3.vmul3(lhs, rhs, rhs)
Vmul3OutRhs == VmulOperands /\ Do("mat3.vmul3", "A", "U", "U", 0, mat3_vmul3(heap, "A", "U", "U"))

\* mat3.vmul3(lhs, rhs, lhs.c0 | lhs.c1 | lhs.c2)
Vmul3OutCol ==
    /\ VmulOperands
    /\ \E k \in {c0("A"), c1("A"), c2("A")} :
          Do("mat3.vmul3", "A", "U", k, 0, mat3_vmul3(heap, "A", "U", k))

\* Mat3.vmul3(rhs): out = vec3()
Mat3Vmul3New == VmulOperands /\ Do("Mat3.vmul3", "A", "U", "vnew", 0,
                   mat3_vmul3(vec3_set(heap, "vnew", Zero, Zero, Zero), "A", "U", "vnew"))

\* Mat3.vmul3(rhs, rhs)
Mat3Vmul3OutRhs == VmulOperands /\ Do("Mat3.vmul3", "A", "U", "U", 0,
                      mat3_vmul3(heap, "A", "U", "U"))

NextVmul ==
    \/ Vmul3New
    \/ Vmul3Out
    \/ Vmul3OutRhs
    \/ Vmul3OutCol
    \/ Mat3Vmul3New
    \/ Mat3Vmul3OutRhs

SpecVmul == InitVmul /\ [][NextVmul]_vars

(***************************************************************************)
(* SpecMul: products of 2x2 matrices M, N, of 3x3 matrices A, B and of     *)
(* quaternions P, Q: into a new object, in place on the receiver, the      *)
(* receiver with itself, and into the right operand.                       *)
(***************************************************************************)
RhsMat2 ==
    {<<Vec2(Zero, One), Vec2(One, Zero)>>,
     <<Vec2(One, One), Vec2(Zero, One)>>,
     <<Vec2(One, Zero), Vec2(One, Num(-1))>>}

LhsMat2 == {<<a, b>> : a \in Vec2Vals, b \in {Vec2(Zero, One), Vec2(One, Num(-1))}}

LhsMat3 ==
    {<<a, b, c>> : a \in Vec3Vals,
                   b \in {Vec3(One, One, Zero)},
                   c \in {Vec3(Zero, Zero, One), Vec3(One, Zero, One)}}

RhsMat3 ==
    {<<Vec3(Zero, One, Zero), Vec3(Zero, Zero, One), Vec3(One, Zero, Zero)>>,
     <<Vec3(One, One, Zero), Vec3(Zero, One, Zero), Vec3(Zero, Num(-1), One)>>}

QuatVals == {Vec4(x, y, z, w) : x \in Entries, y \in Entries, z \in Entries, w \in Entries}

RhsQuat == {Vec4(One, Zero, Zero, Zero), Vec4(Zero, One, Zero, One), Vec4(Zero, Zero, One, Num(-1))}

IdentQ == Vec4(Zero, Zero, Zero, One)

HeapMul2(m, n) == Obj2("M", m) @@ Obj2("N", n) @@ Obj2("new2", Ident2) @@ Mat2Scratch

HeapMul3(a, b) == Obj3("A", a) @@ Obj3("B", b) @@ Obj3("new", Ident3) @@ Mat3Scratch

HeapMulQ(p, q) == ("P" :> p) @@ ("Q" :> q) @@ ("qnew" :> IdentQ)

InitMul ==
    /\ \/ \E m \in LhsMat2, n \in RhsMat2 : heap = HeapMul2(m, n)
       \/ \E a \in LhsMat3, b \in RhsMat3 : heap = HeapMul3(a, b)
       \/ \E p \in QuatVals, q \in RhsQuat : heap = HeapMulQ(p, q)
    /\ pre = heap
    /\ call = NoCall
    /\ ret = "none"

Mul2Operands == Has("M.c0") /\ SmallMat2("M") /\ SmallMat2("N")

Mul3Operands == Has("A.c0") /\ SmallMat3("A") /\ SmallMat3("B")

MulQOperands == Has("P") /\ SmallObj("P") /\ SmallObj("Q")

\* mat2.mul(lhs, rhs): out = mat2()
Mat2MulNew == Mul2Operands /\ Do("mat2.mul", "M", "N", "new2", 0,
                 mat2_mul(mat2_identity(heap, "new2"), "M", "N", "new2"))

\* Mat2.mul(rhs): mat2.mul(this, rhs, this)
Mat2MulThis == Mul2Operands /\ Do("Mat2.mul", "M", "N", "M", 0, mat2_mul(heap, "M", "N", "M"))

\* a.mul(a)
Mat2MulSelf == Mul2Operands /\ Do("Mat2.mul", "M", "M", "M", 0, mat2_mul(heap, "M", "M", "M"))

\* mat2.mul(lhs, rhs, rhs)
Mat2MulOutRhs == Mul2Operands /\ Do("mat2.mul", "M", "N", "N", 0, mat2_mul(heap, "M", "N", "N"))

\* mat3.mul(lhs, rhs): out = mat3()
Mat3MulNew == Mul3Operands /\ Do("mat3.mul", "A", "B", "new", 0,
                 mat3_mul(mat3_identity(heap, "new"), "A", "B", "new"))

\* Mat3.mul(rhs): mat3.mul(this, rhs, this)
Mat3MulThis == Mul3Operands /\ Do("Mat3.mul", "A", "B", "A", 0, mat3_mul(heap, "A", "B", "A"))

Mat3MulSelf == Mul3Operands /\ Do("Mat3.mul", "A", "A", "A", 0, mat3_mul(heap, "A", "A", "A"))

Mat3MulOutRhs == Mul3Operands /\ Do("mat3.mul", "A", "B", "B", 0, mat3_mul(heap, "A", "B", "B"))

\* quat.mul(lhs, rhs): out = quat()
QuatMulNew == MulQOperands /\ Do("quat.mul", "P", "Q", "qnew", 0,
                 quat_mul(quat_identity(heap, "qnew"), "P", "Q", "qnew"))

\* Quat.mul(rhs): quat.mul(this, rhs, this)
QuatMulThis == MulQOperands /\ Do("Quat.mul", "P", "Q", "P", 0, quat_mul(heap, "P", "Q", "P"))

QuatMulSelf == MulQOperands /\ Do("Quat.mul", "P", "P", "P", 0, quat_mul(heap, "P", "P", "P"))

QuatMulOutRhs == MulQOperands /\ Do("quat.mul", "P", "Q", "Q", 0, quat_mul(heap, "P", "Q", "Q"))

NextMul ==
    \/ Mat2MulNew
    \/ Mat2MulThis
    \/ Mat2MulSelf
    \/ Mat2MulOutRhs
    \/ Mat3MulNew
    \/ Mat3MulThis
    \/ Mat3MulSelf
    \/ Mat3MulOutRhs
    \/ QuatMulNew
    \/ QuatMulThis
    \/ QuatMulSelf
    \/ QuatMulOutRhs

SpecMul == InitMul /\ [][NextMul]_vars

(***************************************************************************)
(* SpecReject: the rejection of the vector V from the nonzero vector R     *)
(* (vec3 and vec4): into a new vector, into the distinct vector O, into V  *)
(* itself, into R, and the instance forms.                                 *)
(***************************************************************************)
RejectRhs3 == Vec3Vals \ {Zero3}

Vec4Vals == {Vec4(x, y, z, w) : x \in Entries, y \in Entries, z \in Entries, w \in Entries}

Zero4 == Vec4(Zero, Zero, Zero, Zero)

RejectRhs4 == {Vec4(One, Zero, Zero, Zero), Vec4(One, One, Zero, Zero), Vec4(Zero, One, One, One)}

HeapReject(v, r, z) ==
    ("V" :> v) @@ ("R" :> r) @@ ("O" :> z) @@ ("project.new" :> z) @@ ("reject.new" :> z)

InitReject ==
    /\ \/ \E v \in Vec3Vals, r \in RejectRhs3 : heap = HeapReject(v, r, Zero3)
       \/ \E v \in Vec4Vals, r \in RejectRhs4 : heap = HeapReject(v, r, Zero4)
    /\ pre = heap
    /\ call = NoCall
    /\ ret = "none"

Is3 == DOMAIN heap["V"] = {"x", "y", "z"}

Reject3Operands == Is3 /\ SmallObj("V") /\ SmallObj("R") /\ vec3_dot(heap, "R", "R") # Zero

Reject4Operands == ~Is3 /\ SmallObj("V") /\ SmallObj("R") /\ vec4_dot(heap, "R", "R") # Zero

\* vec3.reject(lhs, rhs)
Vec3RejectNew == Reject3Operands /\ Do("vec3.reject", "V", "R", "undefined", 0,
                    vec3_reject(heap, "V", "R", "undefined"))

\* vec3.reject(lhs, rhs, out), out one of: a distinct vector, lhs, rhs
Vec3RejectOut ==
    /\ Reject3Operands
    /\ \E out \in {"O", "V", "R"} :
          Do("vec3.reject", "V", "R", out, 0, vec3_reject(heap, "V", "R", out))

\* v.reject(rhs)
Vec3RejectThis == Reject3Operands /\ Do("Vec3.reject", "V", "R", "undefined", 0,
                     Vec3_reject(heap, "V", "R", "undefined"))

\* v.reject(rhs, out)
Vec3RejectThisOut == Reject3Operands /\ Do("Vec3.reject", "V", "R", "O", 0,
                        Vec3_reject(heap, "V", "R", "O"))

\* vec4.reject(lhs, rhs)
Vec4RejectNew == Reject4Operands /\ Do("vec4.reject", "V", "R", "undefined", 0,
                    vec4_reject(heap, "V", "R", "undefined"))

\* vec4.reject(lhs, rhs, out), out one of: a distinct vector, lhs, rhs
Vec4RejectOut ==
    /\ Reject4Operands
    /\ \E out \in {"O", "V", "R"} :
          Do("vec4.reject", "V", "R", out, 0, vec4_reject(heap, "V", "R", out))

\* v.reject(rhs)
Vec4RejectThis == Reject4Operands /\ Do("Vec4.reject", "V", "R", "undefined", 0,
                     Vec4_reject(heap, "V", "R", "undefined"))

\* v.reject(rhs, out)
Vec4RejectThisOut == Reject4Operands /\ Do("Vec4.reject", "V", "R", "O", 0,
                        Vec4_reject(heap, "V", "R", "O"))

NextReject ==
    \/ Vec3RejectNew
    \/ Vec3RejectOut
    \/ Vec3RejectThis
    \/ Vec3RejectThisOut
    \/ Vec4RejectNew
    \/ Vec4RejectOut
    \/ Vec4RejectThis
    \/ Vec4RejectThisOut

SpecReject == InitReject /\ [][NextReject]_vars

(***************************************************************************)
(* SpecEuler: quaternions from an Euler angle triple in each of the six    *)
(* orders, and from a single-axis rotation.  Angles are tan(radians / 4)   *)
(* in 0..MaxTan.                                                           *)
(***************************************************************************)
MaxTan == 2

Angles == {Num(t) : t \in 0..MaxTan}

QuatScratch == Fill({"quat.q1", "quat.q2", "quat.q3"}, Zero4)

HeapEuler == ("rot" :> Zero3) @@ ("qnew" :> IdentQ) @@ QuatScratch

InitEuler ==
    /\ heap = HeapEuler
    /\ pre = heap
    /\ call = NoCall
    /\ ret = "none"

\* angle triples with at most one nonzero component
AxisTriples ==
    {t \in Angles \X Angles \X Angles : Cardinality({k \in 1..3 : t[k] # Zero}) <= 1}

\* quat.fromEuler(vec3(a, 0, 0) | vec3(0, a, 0) | vec3(0, 0, a), euler): out = quat()
FromEuler ==
    /\ Has("rot")
    /\ \E t \in AxisTriples, euler \in EulerRot :
          LET x == t[1]  y == t[2]  z == t[3]
              h0 == quat_identity(vec3_set(heap, "rot", x, y, z), "qnew")
          IN  DoFrom(h0, "quat.fromEuler", "rot", euler, "qnew", 0,
                     quat_fromEuler(h0, "rot", euler, "qnew"))

\* quat.fromEuler(vec3(x, y, z)): euler = EulerRot.ZXY
FromEulerDefault ==
    /\ Has("rot")
    /\ \E x \in {Zero, Num(MaxTan)}, y \in {Zero, Num(MaxTan)}, z \in {Zero, Num(MaxTan)} :
          LET h0 == quat_identity(vec3_set(heap, "rot", x, y, z), "qnew")
          IN  DoFrom(h0, "quat.fromEuler", "rot", "ZXY", "qnew", 0,
                     quat_fromEuler(h0, "rot", "ZXY", "qnew"))

\* quat.fromRotationX(a): out = quat()
FromRotationX ==
    /\ Has("rot")
    /\ \E a \in Angles :
          LET h0 == quat_identity(vec3_set(heap, "rot", a, Zero, Zero), "qnew")
          IN  DoFrom(h0, "quat.fromRotationX", "rot", "none", "qnew", 0,
                     quat_fromRotationX(h0, a, "qnew"))

FromRotationY ==
    /\ Has("rot")
    /\ \E a \in Angles :
          LET h0 == quat_identity(vec3_set(heap, "rot", Zero, a, Zero), "qnew")
          IN  DoFrom(h0, "quat.fromRotationY", "rot", "none", "qnew", 0,
                     quat_fromRotationY(h0, a, "qnew"))

FromRotationZ ==
    /\ Has("rot")
    /\ \E a \in Angles :
          LET h0 == quat_identity(vec3_set(heap, "rot", Zero, Zero, a), "qnew")
          IN  DoFrom(h0, "quat.fromRotationZ", "rot", "none", "qnew", 0,
                     quat_fromRotationZ(h0, a, "qnew"))

NextEuler ==
    \/ FromEuler
    \/ FromEulerDefault
    \/ FromRotationX
    \/ FromRotationY
    \/ FromRotationZ

SpecEuler == InitEuler /\ [][NextEuler]_vars

(***************************************************************************)
(* SpecChain: instance arithmetic on the vector pos, singly and chained    *)
(* as pos.add(vec3(a, a, a)).scale(k).mul(vec3(m, m, m)), and the static   *)
(* vec3.sub(pos, vec3(...pos.toArray()), pos).  An operation is applied    *)
(* while the entries of pos are of magnitude at most MaxCoord.             *)
(***************************************************************************)
MaxCoord == 50

ChainArgs == {2, 5}

ChainScales == {2, 5}

HeapChain == Fill({"pos", "arg", "arg2", "add.new"}, Zero3)

InitChain ==
    /\ heap = HeapChain
    /\ pre = heap
    /\ call = NoCall
    /\ ret = "none"

ChainOperands ==
    \A f \in DOMAIN heap["pos"] : heap["pos"][f][2] = 1 /\ Abs(heap["pos"][f][1]) <= MaxCoord

\* the argument vec3(a, a, a), created by the caller
WithArg(h, id, a) == vec3_set(h, id, Num(a), Num(a), Num(a))

\* pos.add(vec3(a, a, a))
Vec3Add ==
    /\ ChainOperands
    /\ \E a \in ChainArgs :
          LET h0 == WithArg(heap, "arg", a)
          IN  DoFrom(h0, "Vec3.add", "pos", "arg", "pos", 0, Vec3_add(h0, "pos", "arg"))

\* pos.sub(vec3(a, a, a))
Vec3Sub ==
    /\ ChainOperands
    /\ \E a \in ChainArgs :
          LET h0 == WithArg(heap, "arg", a)
          IN  DoFrom(h0, "Vec3.sub", "pos", "arg", "pos", 0, Vec3_sub(h0, "pos", "arg"))

\* pos.mul(vec3(a, a, a))
Vec3Mul ==
    /\ ChainOperands
    /\ \E a \in ChainArgs :
          LET h0 == WithArg(heap, "arg", a)
          IN  DoFrom(h0, "Vec3.mul", "pos", "arg", "pos", 0, Vec3_mul(h0, "pos", "arg"))

\* pos.scale(k)
Vec3Scale ==
    /\ ChainOperands
    /\ \E k \in ChainScales :
          Do("Vec3.scale", "pos", "none", "pos", k, Vec3_scale(heap, "pos", Num(k)))

\* pos.add(vec3(a, a, a)).scale(k).mul(vec3(m, m, m)): each method is called
\* on what the previous one returned
Vec3Chain ==
    /\ ChainOperands
    /\ \E a \in ChainArgs, k \in ChainScales, m \in ChainArgs :
          LET h0 == WithArg(WithArg(heap, "arg", a), "arg2", m)
              r1 == Vec3_add(h0, "pos", "arg")
              r2 == Vec3_scale(r1.h, r1.r, Num(k))
              r3 == Vec3_mul(r2.h, r2.r, "arg2")
          IN  DoFrom(h0, "chain", "pos", "arg", "pos", k, r3)

\* vec3.sub(pos, vec3(...pos.toArray()), pos)
Vec3SubCopy ==
    /\ ChainOperands
    /\ LET a  == vec3_toArray(heap, "pos")
           h0 == vec3_set(heap, "arg", a[1], a[2], a[3])
       IN  DoFrom(h0, "vec3.sub", "pos", "arg", "pos", 0,
                  Return(vec3_sub(h0, "pos", "arg", "pos"), "pos"))

NextChain ==
    \/ Vec3Add
    \/ Vec3Sub
    \/ Vec3Mul
    \/ Vec3Scale
    \/ Vec3Chain
    \/ Vec3SubCopy

SpecChain == InitChain /\ [][NextChain]_vars

(***************************************************************************)
(* SpecIndex: the col and row accessors of a 2x2 matrix M and a 3x3 matrix *)
(* A (both snapshots of mat3), for indices in -MaxIndex..MaxIndex.         *)
(***************************************************************************)
MaxIndex == 3

Indices == (-MaxIndex)..MaxIndex

HeapIndex2(m) == Obj2("M", m) @@ ("row.new" :> Zero2)

HeapIndex3(a) == Obj3("A", a) @@ ("row.new" :> Zero3)

IndexMat2 == {<<a, b>> : a \in Vec2Vals, b \in {Vec2(Num(2), Num(3))}}

InitIndex ==
    /\ \/ \E m \in IndexMat2 : heap = HeapIndex2(m)
       \/ \E a \in LhsMat3 : heap = HeapIndex3(a)
    /\ pre = heap
    /\ call = NoCall
    /\ ret = "none"

\* mat2.col(m, index) and Mat2.col(index)
Mat2Col ==
    /\ Has("M.c0")
    /\ \E i \in Indices, op \in {"mat2.col", "Mat2.col"} :
          Do(op, "M", "none", "none", i, mat2_col(heap, "M", i))

\* mat2.row(m, index) and Mat2.row(index)
Mat2Row ==
    /\ Has("M.c0")
    /\ \E i \in Indices, op \in {"mat2.row", "Mat2.row"} :
          Do(op, "M", "none", "none", i, mat2_row(heap, "M", i))

\* mat3.col(m, index) and Mat3.col(index)
Mat3Col ==
    /\ Has("A.c0")
    /\ \E i \in Indices, op \in {"mat3.col", "Mat3.col"} :
          Do(op, "A", "none", "none", i, mat3_col(heap, "A", i))

\* mat3.row(m, index) and Mat3.row(index)
Mat3Row ==
    /\ Has("A.c0")
    /\ \E i \in Indices, op \in {"mat3.row", "Mat3.row"} :
          Do(op, "A", "none", "none", i, mat3_row(heap, "A", i))

\* types/mat3.ts: mat3.col(self, index)
Mat3tsCol ==
    /\ Has("A.c0")
    /\ \E i \in Indices : Do("mat3ts.col", "A", "none", "none", i, mat3ts_col(heap, "A", i))

\* types/mat3.ts: mat3.row(self, index)
Mat3tsRow ==
    /\ Has("A.c0")
    /\ \E i \in Indices : Do("mat3ts.row", "A", "none", "none", i, mat3ts_row(heap, "A", i))

NextIndex ==
    \/ Mat2Col
    \/ Mat2Row
    \/ Mat3Col
    \/ Mat3Row
    \/ Mat3tsCol
    \/ Mat3tsRow

SpecIndex == InitIndex /\ [][NextIndex]_vars

(***************************************************************************)
(* SpecCopy: copies between the 3x3 matrices A and B: the instance form    *)
(* a.copy(b) and the static mat3.copy(a, b), in both directions.           *)
(***************************************************************************)
HeapCopy(a, b) == Obj3("A", a) @@ Obj3("B", b)

InitCopy ==
    /\ \E a \in Mat3Vals, b \in RhsMat3 : heap = HeapCopy(a, b)
    /\ pre = heap
    /\ call = NoCall
    /\ ret = "none"

\* a.copy(b)
Mat3CopyThis ==
    /\ Has("A.c0")
    /\ \E ab \in {<<"A", "B">>, <<"B", "A">>} :
          Do("Mat3.copy", ab[1], ab[2], ab[1], 0, Mat3_copy(heap, ab[1], ab[2]))

\* mat3.copy(a, b)
Mat3CopyStatic ==
    /\ Has("A.c0")
    /\ \E ab \in {<<"A", "B">>, <<"B", "A">>} :
          Do("mat3.copy", ab[1], ab[2], ab[1], 0, mat3_copy(heap, ab[1], ab[2]))

NextCopy ==
    \/ Mat3CopyThis
    \/ Mat3CopyStatic

SpecCopy == InitCopy /\ [][NextCopy]_vars

(***************************************************************************)
(* SpecCreate: the constructors of quat, each call leaving its new object  *)
(* in the slot qnew; call.lhs holds the argument list of the call.         *)
(***************************************************************************)
InitCreate ==
    /\ heap = ("qnew" :> Zero4)
    /\ pre = heap
    /\ call = NoCall
    /\ ret = "none"

\* quat()
QuatCreate0 ==
    /\ Has("qnew")
    /\ Do("quat.create", <<>>, "none", "qnew", 0, quat_create(heap, <<>>, "qnew"))

\* quat(v)
QuatCreate1 ==
    /\ Has("qnew")
    /\ \E v \in SignedEntries :
          Do("quat.create", <<v>>, "none", "qnew", 1, quat_create(heap, <<v>>, "qnew"))

\* quat(x, y, z)
QuatCreate3 ==
    /\ Has("qnew")
    /\ \E x \in Entries, y \in Entries, z \in Entries :
          Do("quat.create", <<x, y, z>>, "none", "qnew", 3,
             quat_create(heap, <<x, y, z>>, "qnew"))

\* quat(x, y, z, w)
QuatCreate4 ==
    /\ Has("qnew")
    /\ \E x \in Entries, y \in Entries, z \in Entries, w \in Entries :
          Do("quat.create", <<x, y, z, w>>, "none", "qnew", 4,
             quat_create(heap, <<x, y, z, w>>, "qnew"))

\* quat.zero()
QuatZero == Has("qnew") /\ Do("quat.zero", <<>>, "none", "qnew", 0, quat_zero(heap, "qnew"))

\* quat.identity()
QuatIdentity ==
    Has("qnew") /\ Do("quat.identity", <<>>, "none", "qnew", 0, quat_new_identity(heap, "qnew"))

NextCreate ==
    \/ QuatCreate0
    \/ QuatCreate1
    \/ QuatCreate3
    \/ QuatCreate4
    \/ QuatZero
    \/ QuatIdentity

SpecCreate == InitCreate /\ [][NextCreate]_vars

(***************************************************************************)
(* SpecAxis: rotations built from the axis vector `axis` and an angle, as  *)
(* a 3x3 matrix and as a quaternion, into a new object or into a supplied  *)
(* one.  call.idx is the numerator of the angle's parameter.               *)
(***************************************************************************)
UnitAxes ==
    {Vec3(One, Zero, Zero), Vec3(Zero, One, Zero), Vec3(Zero, Zero, Num(-1)),
     Vec3(Rat(3, 5), Rat(4, 5), Zero), Vec3(Rat(1, 3), Rat(2, 3), Rat(-2, 3))}

AxisVals == UnitAxes \cup Vec3Vals \cup {Vec3(Num(2), Zero, Zero), Vec3(Rat(1, 2), Zero, Zero)}

HeapAxis(a) ==
    ("axis" :> a) @@ Obj3("A", Ident3) @@ Obj3("new", Ident3) @@ ("P" :> IdentQ)
        @@ ("qnew" :> IdentQ) @@ ("scale.new" :> Zero3) @@ ("mul.new" :> Zero3) @@ Mat3Scratch

InitAxis ==
    /\ \E a \in AxisVals : heap = HeapAxis(a)
    /\ pre = heap
    /\ call = NoCall
    /\ ret = "none"

\* mat3.fromAxisAngle(axis, radians): out = mat3()
Mat3FromAxisAngleNew ==
    /\ Has("axis")
    /\ \E t \in 0..MaxTan :
          Do("mat3.fromAxisAngle", "axis", "none", "new", t,
             mat3_fromAxisAngle(mat3_identity(heap, "new"), "axis", Rad(Num(t)), "new"))

\* mat3.fromAxisAngle(axis, radians, out)
Mat3FromAxisAngleOut ==
    /\ Has("axis")
    /\ \E t \in 0..MaxTan :
          Do("mat3.fromAxisAngle", "axis", "none", "A", t,
             mat3_fromAxisAngle(heap, "axis", Rad(Num(t)), "A"))

\* quat.fromAxisAngle(axis, radians): out = quat()
QuatFromAxisAngleNew ==
    /\ Has("axis")
    /\ \E t \in 0..MaxTan :
          Do("quat.fromAxisAngle", "axis", "none", "qnew", t,
             quat_fromAxisAngle(quat_identity(heap, "qnew"), "axis", Num(t), "qnew"))

\* quat.fromAxisAngle(axis, radians, out)
QuatFromAxisAngleOut ==
    /\ Has("axis")
    /\ \E t \in 0..MaxTan :
          Do("quat.fromAxisAngle", "axis", "none", "P", t,
             quat_fromAxisAngle(heap, "axis", Num(t), "P"))

NextAxis ==
    \/ Mat3FromAxisAngleNew
    \/ Mat3FromAxisAngleOut
    \/ QuatFromAxisAngleNew
    \/ QuatFromAxisAngleOut

SpecAxis == InitAxis /\ [][NextAxis]_vars

(***************************************************************************)
(* SpecHamilton: products of the quaternions P, Q and S, each into a new   *)
(* quaternion: single products in both orders, products with a new         *)
(* identity, the two bracketings of P Q S, and the product of P with its   *)
(* conjugate.                                                              *)
(***************************************************************************)
SignedQuats ==
    {Vec4(x, y, z, w) : x \in SignedEntries, y \in SignedEntries, z \in SignedEntries,
                        w \in SignedEntries}

QuatI == Vec4(One, Zero, Zero, Zero)

QuatJ == Vec4(Zero, One, Zero, Zero)

QuatK == Vec4(Zero, Zero, One, Zero)

MidQuats == {QuatI, QuatJ, Vec4(One, Num(-1), Zero, One), Vec4(Rat(1, 2), Zero, Num(2), Num(-1))}

LastQuats == {QuatK, Vec4(Zero, One, One, Num(-1))}

HamiltonNew == Fill({"qnew", "qnew2", "L", "R", "ident"}, IdentQ)

HeapHamilton(p, q, s) == ("P" :> p) @@ ("Q" :> q) @@ ("S" :> s) @@ HamiltonNew

InitHamilton ==
    /\ \E p \in SignedQuats, q \in MidQuats, s \in LastQuats : heap = HeapHamilton(p, q, s)
    /\ pre = heap
    /\ call = NoCall
    /\ ret = "none"

\* quat.mul(a, b), for a, b among P, Q
QuatMul ==
    /\ Has("S")
    /\ \E ab \in {<<"P", "Q">>, <<"Q", "P">>} :
          DoFrom(HeapHamilton(heap["P"], heap["Q"], heap["S"]), "quat.mul", ab[1], ab[2], "qnew", 0,
                 quat_mul(quat_identity(HeapHamilton(heap["P"], heap["Q"], heap["S"]), "qnew"),
                          ab[1], ab[2], "qnew"))

\* quat.mul(P, quat.identity()), then quat.mul(quat.identity(), P)
QuatMulUnit ==
    /\ Has("S")
    /\ LET h0 == HeapHamilton(heap["P"], heap["Q"], heap["S"])
           a == quat_mul(quat_identity(quat_new_identity(h0, "ident").h, "R"), "P", "ident", "R")
           b == quat_mul(quat_identity(a.h, "L"), "ident", "P", "L")
       IN  DoFrom(h0, "quat.mul.unit", "P", "ident", a.r, 0, b)

\* quat.mul(quat.mul(P, Q), S), then quat.mul(P, quat.mul(Q, S))
QuatMulAssoc ==
    /\ Has("S")
    /\ LET h0 == HeapHamilton(heap["P"], heap["Q"], heap["S"])
           pq == quat_mul(quat_identity(h0, "qnew"), "P", "Q", "qnew")
           l == quat_mul(quat_identity(pq.h, "L"), pq.r, "S", "L")
           qs == quat_mul(quat_identity(l.h, "qnew2"), "Q", "S", "qnew2")
           r == quat_mul(quat_identity(qs.h, "R"), "P", qs.r, "R")
       IN  DoFrom(h0, "quat.mul.assoc", "P", "Q", r.r, 0, Return(r.h, l.r))

\* quat.mul(P, quat.conj(P)); p.conj() is quat.conj(p, quat())
QuatMulConj ==
    /\ Has("S")
    /\ LET h0 == HeapHamilton(heap["P"], heap["Q"], heap["S"])
           c == quat_conj(quat_identity(h0, "qnew2"), "P", "qnew2")
       IN  DoFrom(h0, "quat.mul.conj", "P", c.r, "qnew", 0,
                  quat_mul(quat_identity(c.h, "qnew"), "P", c.r, "qnew"))

NextHamilton ==
    \/ QuatMul
    \/ QuatMulUnit
    \/ QuatMulAssoc
    \/ QuatMulConj

SpecHamilton == InitHamilton /\ [][NextHamilton]_vars

(***************************************************************************)
(* SpecCompose: products of the matrices A, B (3x3) or M, N (2x2) into new *)
(* matrices, applied to the vector U: mul(A, B) then vmul of the product   *)
(* with U, against vmul(A, vmul(B, U)); and the products with a new        *)
(* identity on either side.                                                *)
(***************************************************************************)
HeapCompose3(a, b, u) ==
    Obj3("A", a) @@ Obj3("B", b) @@ Obj3("I", Ident3) @@ Obj3("new", Ident3)
        @@ Obj3("newL", Ident3) @@ ("U" :> u)
        @@ Fill({"vnew", "vnew2", "vnew3"}, Zero3) @@ Mat3Scratch

HeapCompose2(m, n, u) ==
    Obj2("M", m) @@ Obj2("N", n) @@ Obj2("I", Ident2) @@ Obj2("new2", Ident2)
        @@ Obj2("newL", Ident2) @@ ("U" :> u)
        @@ Fill({"vnew", "vnew2", "vnew3"}, Zero2) @@ Mat2Scratch

InitCompose ==
    /\ \/ \E a \in LhsMat3, b \in RhsMat3, u \in Vec3Vals : heap = HeapCompose3(a, b, u)
       \/ \E m \in LhsMat2, n \in RhsMat2, u \in Vec2Vals : heap = HeapCompose2(m, n, u)
    /\ pre = heap
    /\ call = NoCall
    /\ ret = "none"

\* mat3.vmul3(mat3.mul(A, B), U)
Mat3MulVmul ==
    /\ Has("A.c0") /\ call.op = "none"
    /\ LET ab == mat3_mul(mat3_identity(heap, "new"), "A", "B", "new")
           l == mat3_vmul3(vec3_set(ab.h, "vnew", Zero, Zero, Zero), ab.r, "U", "vnew")
       IN  Do("mat3.mul.vmul", "A", "B", "new", 0, l)

\* then mat3.vmul3(A, mat3.vmul3(B, U))
Mat3VmulVmul ==
    /\ Has("A.c0") /\ call.op = "mat3.mul.vmul"
    /\ LET bu == mat3_vmul3(vec3_set(heap, "vnew2", Zero, Zero, Zero), "B", "U", "vnew2")
           r == mat3_vmul3(vec3_set(bu.h, "vnew3", Zero, Zero, Zero), "A", bu.r, "vnew3")
       IN  Do("mat3.vmul.vmul", "A", "B", "vnew", 0, r)

\* mat3.mul(A, mat3.identity()), then mat3.mul(mat3.identity(), A)
Mat3MulUnit ==
    /\ Has("A.c0")
    /\ LET r == mat3_mul(mat3_identity(mat3_identity(heap, "I"), "new"), "A", "I", "new")
           l == mat3_mul(mat3_identity(r.h, "newL"), "I", "A", "newL")
       IN  Do("mat3.mul.unit", "A", "I", r.r, 0, l)

\* mat2.vmul2(mat2.mul(M, N), U), then mat2.vmul2(M, mat2.vmul2(N, U))
Mat2MulVmul ==
    /\ Has("M.c0")
    /\ LET mn == mat2_mul(mat2_identity(heap, "new2"), "M", "N", "new2")
           l == mat2_vmul2(vec2_set(mn.h, "vnew", Zero, Zero), mn.r, "U", "vnew")
           nu == mat2_vmul2(vec2_set(l.h, "vnew2", Zero, Zero), "N", "U", "vnew2")
           r == mat2_vmul2(vec2_set(nu.h, "vnew3", Zero, Zero), "M", nu.r, "vnew3")
       IN  Do("mat2.mul.vmul", "M", "N", l.r, 0, r)

\* mat2.mul(M, mat2.identity()), then mat2.mul(mat2.identity(), M)
Mat2MulUnit ==
    /\ Has("M.c0")
    /\ LET r == mat2_mul(mat2_identity(mat2_identity(heap, "I"), "new2"), "M", "I", "new2")
           l == mat2_mul(mat2_identity(r.h, "newL"), "I", "M", "newL")
       IN  Do("mat2.mul.unit", "M", "I", r.r, 0, l)

NextCompose ==
    \/ Mat3MulVmul
    \/ Mat3VmulVmul
    \/ Mat3MulUnit
    \/ Mat2MulVmul
    \/ Mat2MulUnit

SpecCompose == InitCompose /\ [][NextCompose]_vars

(***************************************************************************)
(* SpecInverse: N = inv(M) into a new matrix, then mul(M, N), mul(N, M)    *)
(* and inv(N), each into a new matrix: four calls in sequence for the 3x3  *)
(* matrix A, one step for the 2x2 matrix M.  The objects are named N, MN,  *)
(* NM once they are returned.                                              *)
(***************************************************************************)
Mat1234 == <<Vec2(Num(1), Num(2)), Vec2(Num(3), Num(4))>>

InverseMat2 == (Mat2Vals \ {TinyMat2}) \cup {Mat1234}

HeapInverse3(a) ==
    Obj3("A", a) @@ Obj3("N", Ident3) @@ Obj3("MN", Ident3) @@ Obj3("NM", Ident3)
        @@ Obj3("new", Ident3) @@ Obj3("inv.new", Ident3) @@ Mat3Scratch @@ InvLocals

HeapInverse2(m) ==
    Obj2("M", m) @@ Obj2("N", Ident2) @@ Obj2("MN", Ident2) @@ Obj2("NM", Ident2)
        @@ Obj2("new2", Ident2) @@ Mat2Scratch

InitInverse ==
    /\ \/ \E a \in Mat3Vals : heap = HeapInverse3(a)
       \/ \E m \in InverseMat2 : heap = HeapInverse2(m)
    /\ pre = heap
    /\ call = NoCall
    /\ ret = "none"

\* the heap in which the 3x3 matrix object obj goes by the name `name`
Named3(h, obj, name) ==
    [h EXCEPT ![c0(name)] = h[c0(obj)], ![c1(name)] = h[c1(obj)], ![c2(name)] = h[c2(obj)]]

\* let n = mat3.inv(A)
Mat3InvStatic ==
    /\ Has("A.c0")
    /\ call.op = "none"
    /\ LET n == mat3_inv(mat3_identity(heap, "new"), "A", "new")
       IN  IF n.r = "throw"
           THEN Do("mat3.inv", "A", "none", "none", 0, n)
           ELSE Do("mat3.inv", "A", "none", "N", 0, Return(Named3(n.h, n.r, "N"), "N"))

\* then mat3.mul(A, n)
Mat3MulByInv ==
    /\ Has("A.c0")
    /\ call.op = "mat3.inv" /\ ret = "N"
    /\ Do("mat3.mul.MN", "A", "N", "MN", 0, mat3_mul(mat3_identity(heap, "MN"), "A", "N", "MN"))

\* then mat3.mul(n, A)
Mat3MulInvBy ==
    /\ Has("A.c0")
    /\ call.op = "mat3.mul.MN"
    /\ Do("mat3.mul.NM", "N", "A", "NM", 0, mat3_mul(mat3_identity(heap, "NM"), "N", "A", "NM"))

\* then mat3.inv(n)
Mat3InvBack ==
    /\ Has("A.c0")
    /\ call.op = "mat3.mul.NM"
    /\ Do("mat3.inv.back", "N", "none", "new", 0, mat3_inv(mat3_identity(heap, "new"), "N", "new"))

\* let n = mat2.inv(M); mat2.mul(M, n); mat2.mul(n, M); mat2.inv(n)
Mat2InvRound ==
    /\ Has("M.c0")
    /\ LET n == mat2_inv(mat2_identity(heap, "N"), "M", "N")
       IN  IF n.r = "throw"
           THEN Do("mat2.inv.round", "M", "none", "none", 0, n)
           ELSE LET mn == mat2_mul(mat2_identity(n.h, "MN"), "M", n.r, "MN")
                    nm == mat2_mul(mat2_identity(mn.h, "NM"), n.r, "M", "NM")
                    back == mat2_inv(mat2_identity(nm.h, "new2"), n.r, "new2")
                IN  Do("mat2.inv.round", "M", "none", n.r, 0, back)

NextInverse ==
    \/ Mat3InvStatic
    \/ Mat3MulByInv
    \/ Mat3MulInvBy
    \/ Mat3InvBack
    \/ Mat2InvRound

SpecInverse == InitInverse /\ [][NextInverse]_vars

(***************************************************************************)
(* SpecDet: determinants of the 3x3 matrix A, of a new identity and a new  *)
(* zero matrix, of the transpose of A and of the product of A and B, the   *)
(* last two computed into new matrices.  ret holds the number returned.    *)
(***************************************************************************)
\* a matrix of determinant -3
DetMat == <<Vec3(Num(2), Zero, One), Vec3(Zero, One, Zero), Vec3(One, Zero, Num(-1))>>

HeapDet(a, b) ==
    Obj3("A", a) @@ Obj3("B", b) @@ Obj3("new", Ident3) @@ ("det.cross" :> Zero3) @@ Mat3Scratch

InitDet ==
    /\ \E a \in Mat3Vals, b \in RhsMat3 \cup {DetMat} : heap = HeapDet(a, b)
    /\ pre = heap
    /\ call = NoCall
    /\ ret = "none"

\* mat3.det(m), for m one of A, B
Mat3Det ==
    /\ Has("det.cross")
    /\ \E m \in {"A", "B"} : Do("mat3.det", m, "none", "none", 0, Return(heap, mat3_det(heap, m)))

\* mat3.det(mat3.identity())
Mat3DetIdentity ==
    /\ Has("det.cross")
    /\ LET h1 == mat3_identity(heap, "new")
       IN  Do("mat3.det.identity", "new", "none", "none", 0, Return(h1, mat3_det(h1, "new")))

\* mat3.det(mat3.zero())
Mat3DetZero ==
    /\ Has("det.cross")
    /\ LET h1 == mat3_zero(heap, "new")
       IN  Do("mat3.det.zero", "new", "none", "none", 0, Return(h1, mat3_det(h1, "new")))

\* mat3.det(mat3.transpose(A))
Mat3DetTranspose ==
    /\ Has("det.cross")
    /\ LET t == mat3_transpose(mat3_identity(heap, "new"), "A", "new")
       IN  Do("mat3.det.transpose", t.r, "A", "none", 0, Return(t.h, mat3_det(t.h, t.r)))

\* mat3.det(mat3.mul(A, B))
Mat3DetMul ==
    /\ Has("det.cross")
    /\ LET ab == mat3_mul(mat3_identity(heap, "new"), "A", "B", "new")
       IN  Do("mat3.det.mul", ab.r, "A", "B", 0, Return(ab.h, mat3_det(ab.h, ab.r)))

NextDet ==
    \/ Mat3Det
    \/ Mat3DetIdentity
    \/ Mat3DetZero
    \/ Mat3DetTranspose
    \/ Mat3DetMul

SpecDet == InitDet /\ [][NextDet]_vars

(***************************************************************************)
(* SpecTransform: the 2D vector U transformed by the 3x3 matrix A as a     *)
(* direction (transformVec2) and as a point (transformPoint2), into a new  *)
(* vector or into the distinct vector W.                                   *)
(***************************************************************************)
AffineMats ==
    {<<Vec3(a, b, r), c, t>> :
        a \in SignedEntries, b \in Entries, r \in {Zero, One},
        c \in {Vec3(Zero, One, Zero), Vec3(One, Num(-1), Zero)},
        t \in {Vec3(Zero, Zero, One), Vec3(Num(2), Num(4), One)}}

TransformVecs == {Vec2(x, y) : x \in Entries, y \in SignedEntries}

HeapTransform(a, u) ==
    Obj3("A", a) @@ ("U" :> u) @@ ("W" :> Zero2)
        @@ Fill({"vnew", "tv.new", "xy.new", "add.new"}, Zero2) @@ Mat3Scratch

InitTransform ==
    /\ \E a \in AffineMats, u \in TransformVecs : heap = HeapTransform(a, u)
    /\ pre = heap
    /\ call = NoCall
    /\ ret = "none"

\* mat3.transformVec2(m, rhs): out = vec2()
TransformVec2New ==
    /\ Has("U")
    /\ Do("mat3.transformVec2", "A", "U", "vnew", 0,
          mat3_transformVec2(vec2_set(heap, "vnew", Zero, Zero), "A", "U", "vnew"))

\* mat3.transformVec2(m, rhs, out)
TransformVec2Out ==
    /\ Has("U")
    /\ Do("mat3.transformVec2", "A", "U", "W", 0, mat3_transformVec2(heap, "A", "U", "W"))

\* mat3.transformPoint2(m, rhs): out = vec2()
TransformPoint2New ==
    /\ Has("U")
    /\ Do("mat3.transformPoint2", "A", "U", "vnew", 0,
          mat3_transformPoint2(vec2_set(heap, "vnew", Zero, Zero), "A", "U", "vnew"))

\* mat3.transformPoint2(m, rhs, out)
TransformPoint2Out ==
    /\ Has("U")
    /\ Do("mat3.transformPoint2", "A", "U", "W", 0, mat3_transformPoint2(heap, "A", "U", "W"))

\* transformPoint2(self, rhs) and transformPoint2(self, rhs, out) of
\* types/mat3.ts
Mat3tsTransformPoint2 ==
    /\ Has("U")
    /\ \E o \in {"vnew", "W"} :
          Do("mat3ts.transformPoint2", "A", "U", o, 0,
             mat3ts_transformPoint2(vec2_set(heap, "add.new", Zero, Zero), "A", "U", o))

NextTransform ==
    \/ TransformVec2New
    \/ TransformVec2Out
    \/ TransformPoint2New
    \/ TransformPoint2Out
    \/ Mat3tsTransformPoint2

SpecTransform == InitTransform /\ [][NextTransform]_vars

(***************************************************************************)
(* SpecDegenerate: normalizeSafe of the 4-vector V, quat.fromScaledAxis of *)
(* the 3-vector S and quat.toAxisAngle of V, into new objects and into the *)
(* supplied O4 / O3, on degenerate and on regular inputs.  The operands    *)
(* are those whose square roots are rational.                              *)
(***************************************************************************)
DegenerateVecs ==
    {Zero4, IdentQ, Vec4(Zero, Zero, Zero, Num(-1)), Vec4(One, Zero, Zero, Zero),
     Vec4(One, One, One, One), Vec4(Zero, Rat(4, 5), Zero, Rat(3, 5)),
     Vec4(Zero, Zero, Num(3), Num(4)), Vec4(Zero, Zero, Zero, Num(2)),
     Vec4(Rat(1, 2), Zero, Zero, Num(-2)), Vec4(Num(2), One, Zero, Zero)}

ScaledAxes ==
    {Zero3, Vec3(One, Zero, Zero), Vec3(Zero, Num(-1), Zero), Vec3(Zero, Num(3), Num(4))}

PriorOut == {Vec4(One, One, One, One), Vec4(Num(2), Zero, Num(-1), Zero)}

HeapDegenerate(v, s, o) ==
    ("V" :> v) @@ ("S" :> s) @@ ("O4" :> o) @@ ("O3" :> Vec3(o.x, o.y, o.z))
        @@ ("vnew4" :> Zero4) @@ ("qnew" :> IdentQ) @@ ("qnew2" :> IdentQ) @@ ("vnew" :> Zero3)
        @@ ("quat.v1" :> Zero3) @@ ("quat.identity" :> IdentQ)

InitDegenerate ==
    /\ \E v \in DegenerateVecs, s \in ScaledAxes, o \in PriorOut : heap = HeapDegenerate(v, s, o)
    /\ pre = heap
    /\ call = NoCall
    /\ ret = "none"

\* vec4.normalizeSafe(v): out undefined
Vec4NormalizeSafeNew ==
    /\ Has("V") /\ HasSqrt(vec4_len2(heap, "V"))
    /\ Do("vec4.normalizeSafe", "V", "none", "vnew4", 0,
          vec4_normalizeSafe(vec4_set(heap, "vnew4", Zero, Zero, Zero, Zero), "V", "undefined"))

\* vec4.normalizeSafe(v, out)
Vec4NormalizeSafeOut ==
    /\ Has("V") /\ HasSqrt(vec4_len2(heap, "V"))
    /\ Do("vec4.normalizeSafe", "V", "none", "O4", 0, vec4_normalizeSafe(heap, "V", "O4"))

\* Vec4.normalizeSafe(): vec4.normalizeSafe(this, this)
Vec4NormalizeSafeThis ==
    /\ Has("V") /\ HasSqrt(vec4_len2(heap, "V"))
    /\ Do("Vec4.normalizeSafe", "V", "none", "V", 0, vec4_normalizeSafe(heap, "V", "V"))

\* quat.fromScaledAxis(v): out = quat()
QuatFromScaledAxisNew ==
    /\ Has("S") /\ HasSqrt(vec3_len2(heap, "S"))
    /\ Do("quat.fromScaledAxis", "S", "none", "qnew", 0,
          quat_fromScaledAxis(quat_identity(heap, "qnew"), "S", "qnew"))

\* quat.fromScaledAxis(v, out)
QuatFromScaledAxisOut ==
    /\ Has("S") /\ HasSqrt(vec3_len2(heap, "S"))
    /\ Do("quat.fromScaledAxis", "S", "none", "O4", 0, quat_fromScaledAxis(heap, "S", "O4"))

ToAxisAngleOperand ==
    LET d == sub(One, mul(heap["V"].w, heap["V"].w))
    IN  lt(d, Zero) \/ HasSqrt(d)

\* quat.toAxisAngle(q): out = vec3()
QuatToAxisAngleNew ==
    /\ Has("V") /\ ToAxisAngleOperand
    /\ Do("quat.toAxisAngle", "V", "none", "vnew", 0,
          quat_toAxisAngle(vec3_set(heap, "vnew", Zero, Zero, Zero), "V", "vnew"))

\* quat.toAxisAngle(q, out)
QuatToAxisAngleOut ==
    /\ Has("V") /\ ToAxisAngleOperand
    /\ Do("quat.toAxisAngle", "V", "none", "O3", 0, quat_toAxisAngle(heap, "V", "O3"))

NextDegenerate ==
    \/ Vec4NormalizeSafeNew
    \/ Vec4NormalizeSafeOut
    \/ Vec4NormalizeSafeThis
    \/ QuatFromScaledAxisNew
    \/ QuatFromScaledAxisOut
    \/ QuatToAxisAngleNew
    \/ QuatToAxisAngleOut

SpecDegenerate == InitDegenerate /\ [][NextDegenerate]_vars

(***************************************************************************)
(* SpecReflect: reflect of the incident vector L about the normal N, by    *)
(* the vec2 static (new result, supplied out O, or the receiver L), by     *)
(* num2.reflect, and twice in a row.                                       *)
(***************************************************************************)
UnitNormals2 ==
    {Vec2(One, Zero), Vec2(Zero, One), Vec2(Num(-1), Zero),
     Vec2(Rat(3, 5), Rat(4, 5)), Vec2(Rat(-4, 5), Rat(3, 5))}

Normals2 == UnitNormals2 \cup {Vec2(One, One), Vec2(Zero, Zero)}

Incidents2 == Vec2Vals \cup UnitNormals2

HeapReflect(l, n) ==
    ("L" :> l) @@ ("N" :> n) @@ ("O" :> Vec2(One, One)) @@ ("vec2.v1" :> Vec2(Zero, Zero))
        @@ ("reflect.new" :> Vec2(Zero, Zero)) @@ ("reflect.new2" :> Vec2(Zero, Zero))

InitReflect ==
    /\ \E l \in Incidents2, n \in Normals2 : heap = HeapReflect(l, n)
    /\ pre = heap
    /\ call = NoCall
    /\ ret = "none"

\* vec2.reflect(l, n)
Vec2ReflectNew ==
    /\ Has("reflect.new") /\ call.op = "none"
    /\ Do("vec2.reflect", "L", "N", "reflect.new", 0, vec2_reflect(heap, "L", "N", "undefined"))

\* vec2.reflect(l, n, out)
Vec2ReflectOut ==
    /\ Has("reflect.new") /\ call.op = "none"
    /\ Do("vec2.reflect", "L", "N", "O", 0, vec2_reflect(heap, "L", "N", "O"))

\* Vec2.reflect(rhs): vec2.reflect(this, rhs, this)
Vec2ReflectThis ==
    /\ Has("reflect.new") /\ call.op = "none"
    /\ Do("Vec2.reflect", "L", "N", "L", 0, vec2_reflect(heap, "L", "N", "L"))

\* vec2.reflect(vec2.reflect(l, n), n): the second result is another new object
Vec2ReflectTwice ==
    /\ Has("reflect.new") /\ call.op = "none"
    /\ LET r == vec2_reflect(heap, "L", "N", "undefined")
       IN  Do("vec2.reflect.twice", "L", "N", "reflect.new2", 0,
              IF r.r = "throw" THEN r ELSE vec2_reflect(r.h, r.r, "N", "reflect.new2"))

\* num2.reflect(l, n): the result is a plain value
Num2Reflect ==
    /\ Has("reflect.new") /\ call.op = "none"
    /\ Do("num2.reflect", "L", "N", "none", 0, Return(heap, num2_reflect(heap["L"], heap["N"])))

NextReflect ==
    \/ Vec2ReflectNew
    \/ Vec2ReflectOut
    \/ Vec2ReflectThis
    \/ Vec2ReflectTwice
    \/ Num2Reflect

SpecReflect == InitReflect /\ [][NextReflect]_vars

(***************************************************************************)
(* SpecNamed: calls of the named constants.  The vector a call creates is  *)
(* held in the slot of its dimension ("c2", "c3", "c4"), so a state shows  *)
(* the latest constant of each dimension; call.rhs is the constant's name. *)
(***************************************************************************)
InitNamed ==
    /\ heap = ("c2" :> Vec2(Zero, Zero)) @@ ("c3" :> Zero3) @@ ("c4" :> Zero4)
    /\ pre = heap
    /\ call = NoCall
    /\ ret = "none"

Vec4Zero == Has("c4") /\ Do("vec4", "none", "zero", "c4", 4, vec4_zero(heap, "c4"))

Vec4One == Has("c4") /\ Do("vec4", "none", "one", "c4", 4, vec4_one(heap, "c4"))

Vec4Up == Has("c4") /\ Do("vec4", "none", "up", "c4", 4, vec4_up(heap, "c4"))

Vec4Down == Has("c4") /\ Do("vec4", "none", "down", "c4", 4, vec4_down(heap, "c4"))

Vec4Left == Has("c4") /\ Do("vec4", "none", "left", "c4", 4, vec4_left(heap, "c4"))

Vec4Right == Has("c4") /\ Do("vec4", "none", "right", "c4", 4, vec4_right(heap, "c4"))

Vec4Back == Has("c4") /\ Do("vec4", "none", "back", "c4", 4, vec4_back(heap, "c4"))

Vec4Forward == Has("c4") /\ Do("vec4", "none", "forward", "c4", 4, vec4_forward(heap, "c4"))

Vec3Zero == Has("c3") /\ Do("vec3", "none", "zero", "c3", 3, vec3_zero(heap, "c3"))

Vec3One == Has("c3") /\ Do("vec3", "none", "one", "c3", 3, vec3_one(heap, "c3"))

Vec3Up == Has("c3") /\ Do("vec3", "none", "up", "c3", 3, vec3_up(heap, "c3"))

Vec3Down == Has("c3") /\ Do("vec3", "none", "down", "c3", 3, vec3_down(heap, "c3"))

Vec3Left == Has("c3") /\ Do("vec3", "none", "left", "c3", 3, vec3_left(heap, "c3"))

Vec3Right == Has("c3") /\ Do("vec3", "none", "right", "c3", 3, vec3_right(heap, "c3"))

Vec3Back == Has("c3") /\ Do("vec3", "none", "back", "c3", 3, vec3_back(heap, "c3"))

Vec3Forward == Has("c3") /\ Do("vec3", "none", "forward", "c3", 3, vec3_forward(heap, "c3"))

Vec2Up == Has("c2") /\ Do("vec2", "none", "up", "c2", 2, vec2_up(heap, "c2"))

Vec2Down == Has("c2") /\ Do("vec2", "none", "down", "c2", 2, vec2_down(heap, "c2"))

Vec2Left == Has("c2") /\ Do("vec2", "none", "left", "c2", 2, vec2_left(heap, "c2"))

Vec2Right == Has("c2") /\ Do("vec2", "none", "right", "c2", 2, vec2_right(heap, "c2"))

NextNamed ==
    \/ Vec4Zero \/ Vec4One
    \/ Vec4Up \/ Vec4Down \/ Vec4Left \/ Vec4Right \/ Vec4Back \/ Vec4Forward
    \/ Vec3Zero \/ Vec3One
    \/ Vec3Up \/ Vec3Down \/ Vec3Left \/ Vec3Right \/ Vec3Back \/ Vec3Forward
    \/ Vec2Up \/ Vec2Down \/ Vec2Left \/ Vec2Right

SpecNamed == InitNamed /\ [][NextNamed]_vars

(***************************************************************************)
(* SpecRotation: mat3.fromAxisAngle about a coordinate axis followed by    *)
(* the rotation about that axis built by fromRotationX / Y / Z, for the    *)
(* same angle, into new matrices ("new", "newL") or into the supplied A    *)
(* and B.  call.rhs is the angle, ret the matrix of the second call.  The   *)
(* calls with new results start from the initial heap, and A and B are     *)
(* written once.                                                           *)
(***************************************************************************)
HalfTurn == Rat(1, 0)

TurnAngles == {Num(t) : t \in 0..MaxTan} \cup {Num(-1), Rat(1, 2), HalfTurn}

HeapRotation ==
    ("axis" :> Zero3) @@ ("axis.new" :> Zero3) @@ Obj3("A", Ident3) @@ Obj3("B", Ident3)
        @@ Obj3("new", Ident3) @@ Obj3("newL", Ident3)
        @@ ("scale.new" :> Zero3) @@ ("mul.new" :> Zero3) @@ Mat3Scratch

InitRotation ==
    /\ heap = HeapRotation
    /\ pre = heap
    /\ call = NoCall
    /\ ret = "none"

\* mat3.fromAxisAngle(axis, radians, m) for the new vector `axis` that res
\* holds, then the rotation `rot` about that coordinate axis
AxisThenRotation(op, res, t, m, rot(_)) ==
    LET a == mat3_fromAxisAngle(res.h, res.r, Rad(t), m)
    IN  Do(op, "axis", t, m, 0, IF a.r = "throw" THEN a ELSE rot(a.h))

\* mat3.fromAxisAngle(vec3.right(), t), then mat3.fromRotationX(t)
Mat3RotationXNew ==
    /\ Has("axis") /\ call.op = "none"
    /\ \E t \in TurnAngles :
          LET Rot(h) == mat3_fromRotationX(mat3_identity(h, "newL"), Rad(t), "newL")
          IN  AxisThenRotation("mat3.rotationX", vec3_right(mat3_identity(heap, "new"), "axis"),
                               t, "new", Rot)

\* mat3.fromAxisAngle(vec3.right(), t, A), then mat3.fromRotationX(t, B)
Mat3RotationXOut ==
    /\ Has("axis") /\ call.out # "A"
    /\ \E t \in TurnAngles :
          LET Rot(h) == mat3_fromRotationX(h, Rad(t), "B")
          IN  AxisThenRotation("mat3.rotationX", vec3_right(heap, "axis"), t, "A", Rot)

\* mat3.fromAxisAngle(vec3.up(), t), then mat3.fromRotationY(t)
Mat3RotationYNew ==
    /\ Has("axis") /\ call.op = "none"
    /\ \E t \in TurnAngles :
          LET Rot(h) == mat3_fromRotationY(mat3_identity(h, "newL"), Rad(t), "newL")
          IN  AxisThenRotation("mat3.rotationY", vec3_up(mat3_identity(heap, "new"), "axis"),
                               t, "new", Rot)

\* mat3.fromAxisAngle(vec3.up(), t, A), then mat3.fromRotationY(t, B)
Mat3RotationYOut ==
    /\ Has("axis") /\ call.out # "A"
    /\ \E t \in TurnAngles :
          LET Rot(h) == mat3_fromRotationY(h, Rad(t), "B")
          IN  AxisThenRotation("mat3.rotationY", vec3_up(heap, "axis"), t, "A", Rot)

\* mat3.fromAxisAngle(vec3.forward(), t), then mat3.fromRotationZ(t)
Mat3RotationZNew ==
    /\ Has("axis") /\ call.op = "none"
    /\ \E t \in TurnAngles :
          LET Rot(h) == mat3_fromRotationZ(mat3_identity(h, "newL"), Rad(t), "newL")
          IN  AxisThenRotation("mat3.rotationZ", vec3_forward(mat3_identity(heap, "new"), "axis"),
                               t, "new", Rot)

\* mat3.fromAxisAngle(vec3.forward(), t, A), then mat3.fromRotationZ(t, B)
Mat3RotationZOut ==
    /\ Has("axis") /\ call.out # "A"
    /\ \E t \in TurnAngles :
          LET Rot(h) == mat3_fromRotationZ(h, Rad(t), "B")
          IN  AxisThenRotation("mat3.rotationZ", vec3_forward(heap, "axis"), t, "A", Rot)

NextRotation ==
    \/ Mat3RotationXNew
    \/ Mat3RotationXOut
    \/ Mat3RotationYNew
    \/ Mat3RotationYOut
    \/ Mat3RotationZNew
    \/ Mat3RotationZOut

SpecRotation == InitRotation /\ [][NextRotation]_vars

(***************************************************************************)
(* SpecAbort: the operations that abort on a violated precondition, on     *)
(* operands that violate it and on operands that do not, writing into a    *)
(* supplied out object or the receiver: inv, col and row of a 2x2 matrix   *)
(* M and a 3x3 matrix A, mat3.fromAxisAngle, quat.angle, quat.fromEuler    *)
(* and quat.toEuler.                                                       *)
(***************************************************************************)
AbortMat2 ==
    {<<Vec2(One, Num(2)), Vec2(Num(3), Num(4))>>, <<Vec2(One, Num(2)), Vec2(Num(2), Num(4))>>,
     TinyMat2}

AbortMat3 ==
    {<<Vec3(One, Num(2), Zero), Vec3(Num(2), Num(4), Zero), Vec3(Zero, Zero, One)>>,
     <<Vec3(One, One, Zero), Vec3(Zero, One, One), Vec3(Zero, Zero, Num(2))>>}

AbortAxes == {Vec3(Num(2), Zero, Zero), Vec3(Rat(3, 5), Rat(4, 5), Zero)}

AbortQuats ==
    {IdentQ, Vec4(Zero, Rat(3, 5), Zero, Rat(4, 5)), Vec4(Zero, Zero, Zero, Num(2))}

\* the six orders and a value that is none of them
EulerArgs == EulerRot \cup {"XYX"}

HeapAbort2(m) == Heap2Inv(m) @@ ("row.new" :> Zero2)

HeapAbort3(a, axis) ==
    Heap3Inv(a) @@ ("row.new" :> Zero3) @@ ("axis" :> axis)
        @@ ("scale.new" :> Zero3) @@ ("mul.new" :> Zero3)

HeapAbortQ(p, q) ==
    ("P" :> p) @@ ("Q" :> q) @@ ("rot" :> Vec3(One, Zero, Num(2))) @@ ("O4" :> Vec4(One, One, One, One))
        @@ ("O3" :> Vec3(One, One, One)) @@ ("angle.ret" :> twice_acos(Zero)) @@ QuatScratch

InitAbort ==
    /\ \/ \E m \in AbortMat2 : heap = HeapAbort2(m)
       \/ \E a \in AbortMat3, axis \in AbortAxes : heap = HeapAbort3(a, axis)
       \/ \E p \in AbortQuats, q \in AbortQuats : heap = HeapAbortQ(p, q)
    /\ pre = heap
    /\ call = NoCall
    /\ ret = "none"

\* an index in range, the first one past the columns of a 2x2 matrix, and
\* indices out of range for both sizes
AbortIndices == {-1, 2, MaxIndex}

\* mat2.col(m, index)
Mat2ColAt ==
    /\ Has("M.c0")
    /\ \E i \in AbortIndices : Do("mat2.col", "M", "none", "none", i, mat2_col(heap, "M", i))

\* mat2.row(m, index)
Mat2RowAt ==
    /\ Has("M.c0")
    /\ \E i \in AbortIndices : Do("mat2.row", "M", "none", "none", i, mat2_row(heap, "M", i))

\* mat3.col(m, index)
Mat3ColAt ==
    /\ Has("A.c0")
    /\ \E i \in AbortIndices : Do("mat3.col", "A", "none", "none", i, mat3_col(heap, "A", i))

\* mat3.row(m, index)
Mat3RowAt ==
    /\ Has("A.c0")
    /\ \E i \in AbortIndices : Do("mat3.row", "A", "none", "none", i, mat3_row(heap, "A", i))

\* quat.angle(lhs, rhs)
QuatAngle ==
    /\ Has("P")
    /\ Do("quat.angle", "P", "Q", "none", 0, quat_angle(heap, "P", "Q"))

\* quat.fromEuler(rot, euler, out)
QuatFromEulerOut ==
    /\ Has("P")
    /\ \E euler \in EulerArgs :
          Do("quat.fromEuler", "rot", euler, "O4", 0, quat_fromEuler(heap, "rot", euler, "O4"))

\* quat.toEuler(q, euler, out), where the roots it takes are rational
QuatToEulerOut ==
    /\ Has("P")
    /\ \E euler \in EulerArgs :
          /\ euler \in EulerRot =>
                \A k \in 1..3 : RationalTerm(toEuler_terms(heap["P"], euler)[k])
          /\ Do("quat.toEuler", "P", euler, "O3", 0, quat_toEuler(heap, "P", euler, "O3"))

NextAbort ==
    \/ Mat2InvOut
    \/ Mat2InvThis
    \/ Mat2ColAt
    \/ Mat2RowAt
    \/ Mat3InvOut
    \/ Mat3InvThis
    \/ Mat3ColAt
    \/ Mat3RowAt
    \/ Mat3FromAxisAngleOut
    \/ QuatAngle
    \/ QuatFromEulerOut
    \/ QuatToEulerOut

SpecAbort == InitAbort /\ [][NextAbort]_vars

(***************************************************************************)
(* SpecFrame: sequences of static calls of vec4.add / sub / mul / scale,   *)
(* quat.mul / conj and mat3.mul / vmul3, without out (the result is a      *)
(* newly allocated object, which gets the next unused name) and with the   *)
(* supplied out object O.  The left operand is P (A for matrices) or the   *)
(* object returned by the first call without out.  call.idx is the number  *)
(* of out arguments passed.                                                *)
(***************************************************************************)
MaxAlloc == 2

NewId(k) == <<"n1", "n2", "n3", "n4">>[k]

Parts(id) == {id, c0(id), c1(id), c2(id)}

Allocated(h) == Cardinality({k \in 1..4 : Parts(NewId(k)) \cap DOMAIN h # {}})

NextNew(h) == NewId(Allocated(h) + 1)

CanAlloc == Allocated(heap) < MaxAlloc

FramePairs ==
    {<<Vec4(One, Num(2), Zero, Num(-1)), Vec4(Zero, One, Num(2), One)>>}

FrameMats == {<<Vec3(One, One, Zero), Vec3(Zero, One, One), Vec3(Zero, Zero, Num(2))>>}

HeapFrame4(p, q) ==
    ("P" :> p) @@ ("Q" :> q) @@ ("O" :> Vec4(One, One, One, One)) @@ QuatScratch

HeapFrame3(a, b, u) ==
    Obj3("A", a) @@ Obj3("B", b) @@ Obj3("O", Ident3) @@ ("U" :> u) @@ ("OU" :> Zero3)
        @@ Mat3Scratch

InitFrame ==
    /\ \/ \E pq \in FramePairs : heap = HeapFrame4(pq[1], pq[2])
       \/ \E a \in FrameMats, b \in RhsMat3 : heap = HeapFrame3(a, b, Vec3(One, Num(2), Num(3)))
    /\ pre = heap
    /\ call = NoCall
    /\ ret = "none"

\* the left operands of the vector calls and of the matrix calls
Lhs4 == {"P", NewId(1)} \cap DOMAIN heap

\* vec4.add(lhs, rhs)
Vec4AddFresh ==
    /\ Has("P") /\ CanAlloc
    /\ \E lhs \in Lhs4 :
          LET n == NextNew(heap)
              h0 == heap @@ (n :> Zero4)
          IN  Do("vec4.add", lhs, "Q", n, 0, Return(vec4_add(h0, lhs, "Q", n), n))

\* vec4.add(lhs, rhs, out)
Vec4AddInto ==
    /\ Has("P")
    /\ \E lhs \in Lhs4 :
          Do("vec4.add", lhs, "Q", "O", 1, Return(vec4_add(heap, lhs, "Q", "O"), "O"))

\* vec4.sub(lhs, rhs)
Vec4SubFresh ==
    /\ Has("P") /\ CanAlloc
    /\ \E lhs \in Lhs4 :
          LET n == NextNew(heap)
              h0 == heap @@ (n :> Zero4)
          IN  Do("vec4.sub", lhs, "Q", n, 0, Return(vec4_sub(h0, lhs, "Q", n), n))

\* vec4.sub(lhs, rhs, out)
Vec4SubInto ==
    /\ Has("P")
    /\ \E lhs \in Lhs4 :
          Do("vec4.sub", lhs, "Q", "O", 1, Return(vec4_sub(heap, lhs, "Q", "O"), "O"))

\* vec4.mul(lhs, rhs)
Vec4MulFresh ==
    /\ Has("P") /\ CanAlloc
    /\ \E lhs \in Lhs4 :
          LET n == NextNew(heap)
              h0 == heap @@ (n :> Zero4)
          IN  Do("vec4.mul", lhs, "Q", n, 0, Return(vec4_mul(h0, lhs, "Q", n), n))

\* vec4.mul(lhs, rhs, out)
Vec4MulInto ==
    /\ Has("P")
    /\ \E lhs \in Lhs4 :
          Do("vec4.mul", lhs, "Q", "O", 1, Return(vec4_mul(heap, lhs, "Q", "O"), "O"))

\* vec4.scale(lhs, 2)
Vec4ScaleFresh ==
    /\ Has("P") /\ CanAlloc
    /\ \E lhs \in Lhs4 :
          LET n == NextNew(heap)
              h0 == heap @@ (n :> Zero4)
          IN  Do("vec4.scale", lhs, "none", n, 0, Return(vec4_scale(h0, lhs, Num(2), n), n))

\* vec4.scale(lhs, 2, out)
Vec4ScaleInto ==
    /\ Has("P")
    /\ \E lhs \in Lhs4 :
          Do("vec4.scale", lhs, "none", "O", 1, Return(vec4_scale(heap, lhs, Num(2), "O"), "O"))

\* quat.mul(lhs, rhs)
QuatMulFresh ==
    /\ Has("P") /\ CanAlloc
    /\ \E lhs \in Lhs4 :
          LET n == NextNew(heap)
              h0 == heap @@ (n :> IdentQ)
          IN  Do("quat.mul", lhs, "Q", n, 0, quat_mul(h0, lhs, "Q", n))

\* quat.mul(lhs, rhs, out)
QuatMulInto ==
    /\ Has("P")
    /\ \E lhs \in Lhs4 :
          Do("quat.mul", lhs, "Q", "O", 1, quat_mul(heap, lhs, "Q", "O"))

\* quat.conj(q)
QuatConjFresh ==
    /\ Has("P") /\ CanAlloc
    /\ \E q \in Lhs4 :
          LET n == NextNew(heap)
              h0 == heap @@ (n :> IdentQ)
          IN  Do("quat.conj", q, "none", n, 0, quat_conj(h0, q, n))

\* quat.conj(q, out)
QuatConjInto ==
    /\ Has("P")
    /\ \E q \in Lhs4 : Do("quat.conj", q, "none", "O", 1, quat_conj(heap, q, "O"))

\* mat3.mul(lhs, rhs)
Mat3MulFresh ==
    /\ Has("A.c0") /\ CanAlloc
    /\ \E lhs \in {m \in {"A", NewId(1)} : c0(m) \in DOMAIN heap} :
          LET n == NextNew(heap)
              h0 == heap @@ Obj3(n, Ident3)
          IN  Do("mat3.mul", lhs, "B", n, 0, mat3_mul(h0, lhs, "B", n))

\* mat3.mul(lhs, rhs, out)
Mat3MulInto ==
    /\ Has("A.c0")
    /\ \E lhs \in {m \in {"A", NewId(1)} : c0(m) \in DOMAIN heap} :
          Do("mat3.mul", lhs, "B", "O", 1, mat3_mul(heap, lhs, "B", "O"))

\* mat3.vmul3(lhs, rhs)
Mat3Vmul3Fresh ==
    /\ Has("A.c0") /\ CanAlloc
    /\ \E rhs \in {"U", NewId(1)} \cap DOMAIN heap :
          LET n == NextNew(heap)
              h0 == heap @@ (n :> Zero3)
          IN  Do("mat3.vmul3", "A", rhs, n, 0, mat3_vmul3(h0, "A", rhs, n))

\* mat3.vmul3(lhs, rhs, out)
Mat3Vmul3Into ==
    /\ Has("A.c0")
    /\ \E rhs \in {"U", NewId(1)} \cap DOMAIN heap :
          Do("mat3.vmul3", "A", rhs, "OU", 1, mat3_vmul3(heap, "A", rhs, "OU"))

NextFrame ==
    \/ Vec4AddFresh
    \/ Vec4AddInto
    \/ Vec4SubFresh
    \/ Vec4SubInto
    \/ Vec4MulFresh
    \/ Vec4MulInto
    \/ Vec4ScaleFresh
    \/ Vec4ScaleInto
    \/ QuatMulFresh
    \/ QuatMulInto
    \/ QuatConjFresh
    \/ QuatConjInto
    \/ Mat3MulFresh
    \/ Mat3MulInto
    \/ Mat3Vmul3Fresh
    \/ Mat3Vmul3Into

SpecFrame == InitFrame /\ [][NextFrame]_vars

(***************************************************************************)
(* SpecRoundTrip: quat.fromEuler(rot, euler, O4) followed by                   *)
(* quat.toEuler(O4, euler, O3) with the same order.  The components of rot *)
(* are angles below a quarter turn, given by the tangent of their quarter  *)
(* as quat.fromRotationX / Y / Z take them, at most one of them set;       *)
(* toEuler is applied where the square roots it takes are rational.        *)
(***************************************************************************)
TripAngles == {Zero, Rat(1, 3), Rat(-1, 3), Rat(1, 5)}

\* turns about one axis: triples with at most one angle set
TripTriples ==
    {Vec3(a, Zero, Zero) : a \in TripAngles} \cup {Vec3(Zero, a, Zero) : a \in TripAngles}
        \cup {Vec3(Zero, Zero, a) : a \in TripAngles}

HeapRoundTrip(rot) ==
    ("rot" :> rot) @@ ("O4" :> Vec4(One, One, One, One)) @@ ("O3" :> Vec3(One, One, One))
        @@ QuatScratch

InitRoundTrip ==
    /\ \E rot \in TripTriples : heap = HeapRoundTrip(rot)
    /\ pre = heap
    /\ call = NoCall
    /\ ret = "none"

\* quat.fromEuler(rot, euler, out)
QuatFromEulerTrip ==
    /\ call.op # "quat.fromEuler"
    /\ \E euler \in EulerRot :
          Do("quat.fromEuler", "rot", euler, "O4", 0, quat_fromEuler(heap, "rot", euler, "O4"))

\* the arguments of the term are fractions whose squares can be added
\* within the range of the integers
MaxDen == 200

SmallTerm(term) == term.x[2] <= MaxDen /\ term.y[2] <= MaxDen

\* quat.toEuler(q, euler, out) of the quaternion fromEuler returned
QuatToEulerTrip ==
    /\ call.op = "quat.fromEuler"
    /\ \A k \in 1..3 :
          LET term == toEuler_terms(heap[ret], call.rhs)[k]
          IN  SmallTerm(term) /\ RationalTerm(term)
    /\ Do("quat.toEuler", ret, call.rhs, "O3", 0, quat_toEuler(heap, ret, call.rhs, "O3"))

NextRoundTrip ==
    \/ QuatFromEulerTrip
    \/ QuatToEulerTrip

SpecRoundTrip == InitRoundTrip /\ [][NextRoundTrip]_vars

(***************************************************************************)
(* SpecAxes: quat.fromAxes and quat.fromMat3 on the columns of the proper  *)
(* rotation matrices with entries in {-1, 0, 1}, into a new quaternion and *)
(* into a supplied one.                                                    *)
(***************************************************************************)
SignedAxes ==
    {Vec3(s, Zero, Zero) : s \in {One, Num(-1)}} \cup {Vec3(Zero, s, Zero) : s \in {One, Num(-1)}}
        \cup {Vec3(Zero, Zero, s) : s \in {One, Num(-1)}}

\* x, y orthogonal signed axes and z = x cross y
RotationMats ==
    {<<x, y, Vec3(sub(mul(x.y, y.z), mul(x.z, y.y)), sub(mul(x.z, y.x), mul(x.x, y.z)),
               sub(mul(x.x, y.y), mul(x.y, y.x)))>> :
        <<x, y>> \in {p \in SignedAxes \X SignedAxes :
                        add(add(mul(p[1].x, p[2].x), mul(p[1].y, p[2].y)), mul(p[1].z, p[2].z)) = Zero}}

HeapAxes(m) ==
    Obj3("A", m) @@ ("O4" :> Vec4(One, One, One, One)) @@ ("qnew" :> IdentQ)

InitAxes ==
    /\ \E m \in RotationMats : heap = HeapAxes(m)
    /\ pre = heap
    /\ call = NoCall
    /\ ret = "none"

\* quat.fromAxes(m.c0, m.c1, m.c2): out = quat()
QuatFromAxesNew ==
    /\ Has("A.c0")
    /\ LET h0 == quat_identity(heap, "qnew")
       IN  DoFrom(h0, "quat.fromAxes", "A", "none", "qnew", 0,
                  quat_fromAxes(h0, "A.c0", "A.c1", "A.c2", "qnew"))

\* quat.fromAxes(m.c0, m.c1, m.c2, out)
QuatFromAxesOut ==
    /\ Has("A.c0")
    /\ Do("quat.fromAxes", "A", "none", "O4", 0, quat_fromAxes(heap, "A.c0", "A.c1", "A.c2", "O4"))

\* quat.fromMat3(m): out = quat()
QuatFromMat3New ==
    /\ Has("A.c0")
    /\ LET h0 == quat_identity(heap, "qnew")
       IN  DoFrom(h0, "quat.fromMat3", "A", "none", "qnew", 0, quat_fromMat3(h0, "A", "qnew"))

\* quat.fromMat3(m, out)
QuatFromMat3Out ==
    /\ Has("A.c0")
    /\ Do("quat.fromMat3", "A", "none", "O4", 0, quat_fromMat3(heap, "A", "O4"))

NextAxes ==
    \/ QuatFromAxesNew
    \/ QuatFromAxesOut
    \/ QuatFromMat3New
    \/ QuatFromMat3Out

SpecAxes == InitAxes /\ [][NextAxes]_vars

(***************************************************************************)
(* SpecScratch: sequences of the operations that use module-scope          *)
(* temporaries, on operands that never change, with supplied out objects.  *)
(* Each call finds in the temporaries what the calls before it left there. *)
(***************************************************************************)
ScratchMatA == <<Vec3(One, Num(2), Zero), Vec3(Zero, One, One), Vec3(Num(-1), Zero, One)>>

ScratchMatB == <<Vec3(Zero, One, Zero), Vec3(Num(2), Zero, One), Vec3(One, One, One)>>

\* every module-scope temporary, as it is when the modules are loaded
AllScratch ==
    Mat3Scratch @@ QuatScratch @@ ("quat.v1" :> Zero3) @@ ("quat.identity" :> IdentQ)

HeapScratch3 ==
    Obj3("A", ScratchMatA) @@ Obj3("B", ScratchMatB) @@ Obj3("O", Ident3)
        @@ ("U" :> Vec3(One, Num(2), Num(3))) @@ ("W" :> Vec3(Zero, Num(-1), One))
        @@ ("OU" :> Zero3) @@ ("P2" :> Vec2(One, Num(2))) @@ ("O2" :> Zero2)
        @@ ("axis.new" :> Zero3) @@ AllScratch

HeapScratchQ ==
    ("rot" :> Vec3(One, Zero, Num(2))) @@ ("rot2" :> Vec3(Zero, Num(2), One))
        @@ ("S" :> Vec3(Zero, Num(3), Num(4))) @@ ("S2" :> Vec3(Num(-1), Zero, Zero))
        @@ ("S0" :> Zero3) @@ ("O4" :> Vec4(One, One, One, One)) @@ ("qnew2" :> IdentQ)
        @@ AllScratch

InitScratch ==
    /\ heap \in {HeapScratch3, HeapScratchQ}
    /\ pre = heap
    /\ call = NoCall
    /\ ret = "none"

\* the operation named by (op, lhs, rhs, out) applied in the heap h
Apply(h, op, lhs, rhs, out) ==
    CASE op = "mat3.mul" -> mat3_mul(h, lhs, rhs, out)
      [] op = "mat3.vmul3" -> mat3_vmul3(h, lhs, rhs, out)
      [] op = "mat3.transpose" -> mat3_transpose(h, lhs, out)
      [] op = "mat3.transformVec2" -> mat3_transformVec2(h, lhs, rhs, out)
      [] op = "mat3.fromRotationX" -> mat3_fromRotationX(h, Rad(rhs), out)
      [] op = "quat.fromEuler" -> quat_fromEuler(h, lhs, rhs, out)
      [] op = "quat.fromScaledAxis" -> quat_fromScaledAxis(h, lhs, out)

\* mat3.mul(lhs, rhs, out)
Mat3MulScratch ==
    /\ Has("A.c0")
    /\ \E lhs \in {"A", "B"} : Do("mat3.mul", lhs, "B", "O", 0, mat3_mul(heap, lhs, "B", "O"))

\* mat3.vmul3(lhs, rhs, out)
Mat3Vmul3Scratch ==
    /\ Has("A.c0")
    /\ \E lhs \in {"A", "B"}, rhs \in {"U", "W"} : 
          Do("mat3.vmul3", lhs, rhs, "OU", 0, mat3_vmul3(heap, lhs, rhs, "OU"))

\* mat3.transpose(m, out)
Mat3TransposeScratch ==
    /\ Has("A.c0")
    /\ \E m \in {"A", "B"} : 
          Do("mat3.transpose", m, "none", "O", 0, mat3_transpose(heap, m, "O"))

\* mat3.transformVec2(m, rhs, out)
Mat3TransformVec2Scratch ==
    /\ Has("A.c0")
    /\ \E m \in {"A", "B"} : 
          Do("mat3.transformVec2", m, "P2", "O2", 0, mat3_transformVec2(heap, m, "P2", "O2"))

\* mat3.fromRotationX(radians, out), radians given by tan(radians / 2)
Mat3FromRotationXScratch ==
    /\ Has("A.c0")
    /\ \E t \in {Zero, One} : 
          Do("mat3.fromRotationX", "none", t, "O", 0, mat3_fromRotationX(heap, Rad(t), "O"))

\* quat.fromEuler(rot, euler, out)
QuatFromEulerScratch ==
    /\ Has("rot")
    /\ \E rot \in {"rot", "rot2"}, euler \in {"ZXY", "XZY"} :
          Do("quat.fromEuler", rot, euler, "O4", 0, quat_fromEuler(heap, rot, euler, "O4"))

\* quat.fromScaledAxis(v, out)
QuatFromScaledAxisScratch ==
    /\ Has("rot")
    /\ \E v \in {"S", "S2", "S0"} : 
          Do("quat.fromScaledAxis", v, "none", "O4", 0, quat_fromScaledAxis(heap, v, "O4"))

NextScratch ==
    \/ Mat3MulScratch
    \/ Mat3Vmul3Scratch
    \/ Mat3TransposeScratch
    \/ Mat3TransformVec2Scratch
    \/ Mat3FromRotationXScratch
    \/ QuatFromEulerScratch
    \/ QuatFromScaledAxisScratch

SpecScratch == InitScratch /\ [][NextScratch]_vars

(***************************************************************************)
(* SpecAlias: which objects the caller gets back.  Matrices refer to their *)
(* columns; M and O are matrices of the caller, X, Y, Z its vectors, mnew  *)
(* is the matrix a call without out creates.  fromScaledAxis runs on the   *)
(* vector S with the shared identity quaternion.                           *)
(***************************************************************************)
AliasMat == <<Vec3(One, Num(2), Zero), Vec3(Zero, One, One), Vec3(Num(-1), Zero, One)>>

AliasFirst == {Vec3(One, Num(2), Num(3)), Vec3(Zero, Num(2), Zero)}

HeapAlias3(x) ==
    Mat3_constructor(
        Mat3_constructor(
            Mat3_constructor(
                Fill({"M", "O", "mnew"} \cup Parts("M") \cup Parts("O") \cup Parts("mnew"), Zero3),
                "M", AliasMat),
            "O", Ident3),
        "mnew", Ident3)
      @@ ("X" :> x) @@ ("Y" :> Vec3(Zero, Num(-1), One)) @@ ("Z" :> Vec3(Num(2), Zero, One))
      @@ Mat3Scratch

InitAlias ==
    /\ \/ \E x \in AliasFirst : heap = HeapAlias3(x)
       \/ \E s \in ScaledAxes : heap = HeapDegenerate(IdentQ, s, Vec4(One, One, One, One))
    /\ pre = heap
    /\ call = NoCall
    /\ ret = "none"

AliasMats == {"M", "O", "mnew"}

\* mat3.fromCols(x, y, z): out = mat3()
Mat3FromColsNew ==
    /\ Has("M")
    /\ \E x \in {"X", heap["O"].c1} :
          LET h0 == Mat3_constructor(heap, "mnew", Ident3)
          IN  DoFrom(h0, "mat3.fromCols", x, "Y", "mnew", 0,
                     num3x3_fromCols(h0, x, "Y", "Z", "mnew"))

\* mat3.fromCols(x, y, z, out)
Mat3FromColsOut ==
    /\ Has("M")
    /\ \E x \in {"X", heap["M"].c0} :
          Do("mat3.fromCols", x, "Y", "O", 0, num3x3_fromCols(heap, x, "Y", "Z", "O"))

\* mat3.transpose(m): out = mat3()
Mat3TransposeNew ==
    /\ Has("M")
    /\ \E m \in {"M", "O"} :
          LET h0 == Mat3_constructor(heap, "mnew", Ident3)
          IN  DoFrom(h0, "mat3.transpose", m, "none", "mnew", 0, num3x3_transpose(h0, m, "mnew"))

\* mat3.transpose(m, out)
Mat3TransposeOut ==
    /\ Has("M")
    /\ \E m \in AliasMats :
          Do("mat3.transpose", m, "none", "O", 0, num3x3_transpose(heap, m, "O"))

\* mat3.col(m, index)
Mat3ColOf ==
    /\ Has("M")
    /\ call.op # "mat3.col"
    /\ \E m \in {"O", "mnew"}, i \in {0, 2, 3} :
          Do("mat3.col", m, "none", "none", i, num3x3_col(heap, m, i))

NextAlias ==
    \/ Mat3FromColsNew
    \/ Mat3FromColsOut
    \/ Mat3TransposeNew
    \/ Mat3TransposeOut
    \/ Mat3ColOf
    \/ QuatFromScaledAxisNew
    \/ QuatFromScaledAxisOut

SpecAlias == InitAlias /\ [][NextAlias]_vars

(***************************************************************************)
(* SpecAngle: vec2.angle, Vec2.angle and num2.angle on the vectors L and R *)
(* with integer components up to MaxComp in magnitude, not both zero.      *)
(***************************************************************************)
MaxComp == 3

AngleVecs ==
    {Vec2(Num(x), Num(y)) : x \in -MaxComp..MaxComp, y \in -MaxComp..MaxComp} \ {Zero2}

HeapAngle(l, r) == ("L" :> l) @@ ("R" :> r) @@ ("angle.ret" :> ZeroAngle)

InitAngle ==
    /\ \E l \in AngleVecs, r \in AngleVecs : heap = HeapAngle(l, r)
    /\ pre = heap
    /\ call = NoCall
    /\ ret = "none"

\* vec2.angle(lhs, rhs)
Vec2Angle ==
    /\ Has("L")
    /\ Do("vec2.angle", "L", "R", "none", 0, vec2_angle(heap, "L", "R"))

\* lhs.angle(rhs)
Vec2AngleThis ==
    /\ Has("L")
    /\ Do("Vec2.angle", "L", "R", "none", 0, Vec2_angle(heap, "L", "R"))

\* num2.angle(lhs, rhs) on the values of L and R
Num2Angle ==
    /\ Has("L")
    /\ Do("num2.angle", "L", "R", "none", 0,
          Return([heap EXCEPT !["angle.ret"] = num2_angle(heap["L"], heap["R"])], "angle.ret"))

NextAngle ==
    \/ Vec2Angle
    \/ Vec2AngleThis
    \/ Num2Angle

SpecAngle == InitAngle /\ [][NextAngle]_vars

(***************************************************************************)
(* Reference linear algebra over matrix values (tuples of columns), used   *)
(* to state what an operation is expected to compute.                      *)
(***************************************************************************)
RefDet2(v) == sub(mul(v[1].x, v[2].y), mul(v[1].y, v[2].x))

RefDet3(v) ==
    LET t1 == mul(v[1].x, sub(mul(v[2].y, v[3].z), mul(v[3].y, v[2].z)))
        t2 == mul(v[2].x, sub(mul(v[1].y, v[3].z), mul(v[3].y, v[1].z)))
        t3 == mul(v[3].x, sub(mul(v[1].y, v[2].z), mul(v[2].y, v[1].z)))
    IN  add(sub(t1, t2), t3)

\* the matrix-vector product p * q, for a column value q
RefVmul2(p, q) ==
    Vec2(add(mul(p[1].x, q.x), mul(p[2].x, q.y)),
         add(mul(p[1].y, q.x), mul(p[2].y, q.y)))

RefVmul3(p, q) ==
    Vec3(add(add(mul(p[1].x, q.x), mul(p[2].x, q.y)), mul(p[3].x, q.z)),
         add(add(mul(p[1].y, q.x), mul(p[2].y, q.y)), mul(p[3].y, q.z)),
         add(add(mul(p[1].z, q.x), mul(p[2].z, q.y)), mul(p[3].z, q.z)))

RefMul2(p, q) == <<RefVmul2(p, q[1]), RefVmul2(p, q[2])>>

RefMul3(p, q) == <<RefVmul3(p, q[1]), RefVmul3(p, q[2]), RefVmul3(p, q[3])>>

RefTranspose3(p) ==
    <<Vec3(p[1].x, p[2].x, p[3].x), Vec3(p[1].y, p[2].y, p[3].y), Vec3(p[1].z, p[2].z, p[3].z)>>

\* a - b * (a.b / b.b), componentwise over the fields of a
RefDot(a, b) ==
    LET xyz == add(add(mul(a.x, b.x), mul(a.y, b.y)), mul(a.z, b.z))
    IN  IF "w" \in DOMAIN a THEN add(xyz, mul(a.w, b.w)) ELSE xyz

RefReject(a, b) ==
    LET k == div(RefDot(a, b), RefDot(b, b))
    IN  [f \in DOMAIN a |-> sub(a[f], mul(b[f], k))]

Inv3Ops == {"mat3.inv", "Mat3.inv"}

Inv2Ops == {"mat2.inv", "Mat2.inv"}

(***************************************************************************)
(* C1: mat2.inv and mat3.inv throw exactly when the determinant of the     *)
(* input is exactly 0: every singular matrix is rejected, every matrix     *)
(* with a nonzero determinant, however small, is inverted.                 *)
(***************************************************************************)
C1_InvThrowsIffSingular ==
    /\ call.op \in Inv3Ops =>
          ((ret = "throw") <=> (RefDet3(M3(pre, call.lhs)) = Zero))
    /\ call.op \in Inv2Ops =>
          ((ret = "throw") <=> (RefDet2(M2(pre, call.lhs)) = Zero))

\* a singular, nonzero 3x3 matrix was rejected
C1_Witness ==
    /\ call.op \in Inv3Ops
    /\ ret = "throw"
    /\ M3(pre, call.lhs)[1] # Zero3
    /\ RefDet3(M3(pre, call.lhs)) = Zero

\* a 2x2 matrix with determinant below epsilon was inverted
C1_TinyInverted ==
    /\ call.op \in Inv2Ops
    /\ M2(pre, call.lhs) = TinyMat2
    /\ ret # "throw"

(***************************************************************************)
(* C2: after mat3.inv(M, out) with M nonsingular, the supplied out holds   *)
(* the inverse of M and is the object returned; after the instance call    *)
(* m.inv() the receiver holds the inverse of its previous value and is     *)
(* returned.                                                               *)
(***************************************************************************)
C2_InvIntoOut ==
    (call.op \in Inv3Ops /\ ret # "throw" /\ call.out \in {"A", "B"}) =>
        /\ ret = call.out
        /\ RefMul3(M3(pre, call.lhs), M3(heap, call.out)) = Ident3

\* what the code does instead: the inverse is returned in a new object and
\* out is left holding the transpose of the inverse
C2_Actual ==
    (call.op \in Inv3Ops /\ ret # "throw") =>
        /\ ret = "inv.new"
        /\ RefMul3(M3(pre, call.lhs), M3(heap, ret)) = Ident3
        /\ M3(heap, call.out) = RefTranspose3(M3(heap, ret))

(***************************************************************************)
(* C3: mat3.vmul3(lhs, rhs, out) leaves in out, and returns, the product   *)
(* lhs.c0*rhs.x + lhs.c1*rhs.y + lhs.c2*rhs.z of the values the operands   *)
(* had on entry, also when out is rhs or a column of lhs.                  *)
(***************************************************************************)
Vmul3Ops == {"mat3.vmul3", "Mat3.vmul3"}

C3_Vmul3AliasSafe ==
    call.op \in Vmul3Ops =>
        /\ ret = call.out
        /\ heap[ret] = RefVmul3(M3(pre, call.lhs), pre[call.rhs])

\* what the code guarantees: the product is right when out is neither rhs
\* nor the second or third column of lhs
C3_Actual ==
    (call.op \in Vmul3Ops /\ call.out \notin {call.rhs, c1(call.lhs), c2(call.lhs)}) =>
        /\ ret = call.out
        /\ heap[ret] = RefVmul3(M3(pre, call.lhs), pre[call.rhs])

(***************************************************************************)
(* C4: for vec3 and vec4, reject(lhs, rhs, out) leaves in its destination  *)
(* lhs_old - project(lhs_old, rhs_old) for every choice of out, including  *)
(* out = lhs; the instance call v.reject(rhs) without out leaves that      *)
(* value in the receiver v.                                                *)
(***************************************************************************)
RejectOps == {"vec3.reject", "vec4.reject", "Vec3.reject", "Vec4.reject"}

\* the destination of the last call: out, else the receiver of an instance
\* call, else the new object returned
Dest ==
    IF call.out # "undefined" THEN call.out
    ELSE IF call.op \in {"Vec3.reject", "Vec4.reject"} THEN call.lhs
    ELSE ret

C4_RejectAnyOut ==
    call.op \in RejectOps =>
        /\ ret = Dest
        /\ heap[Dest] = RefReject(pre[call.lhs], pre[call.rhs])

\* what the code guarantees: the rejection is right when the destination is
\* not lhs; when it is lhs, the result is the zero vector
C4_Actual ==
    call.op \in RejectOps =>
        /\ ret = Dest
        /\ Dest # call.lhs => heap[Dest] = RefReject(pre[call.lhs], pre[call.rhs])
        /\ Dest = call.lhs => \A f \in DOMAIN heap[Dest] : heap[Dest][f] = Zero

(***************************************************************************)
(* C6: for each Euler order O, position k and angle a, fromEuler of the    *)
(* triple with a in component k and 0 elsewhere equals the single-axis     *)
(* quaternion fromRotationX/Y/Z(a) about the k-th axis letter of O.        *)
(***************************************************************************)
Letters(euler) ==
    CASE euler = "ZYX" -> <<"Z", "Y", "X">>
      [] euler = "ZXY" -> <<"Z", "X", "Y">>
      [] euler = "YXZ" -> <<"Y", "X", "Z">>
      [] euler = "YZX" -> <<"Y", "Z", "X">>
      [] euler = "XYZ" -> <<"X", "Y", "Z">>
      [] euler = "XZY" -> <<"X", "Z", "Y">>

SingleAxis(letter, a) ==
    CASE letter = "X" -> quat_fromRotationX(pre, a, "qnew").h["qnew"]
      [] letter = "Y" -> quat_fromRotationY(pre, a, "qnew").h["qnew"]
      [] letter = "Z" -> quat_fromRotationZ(pre, a, "qnew").h["qnew"]

Triple(v) == <<v.x, v.y, v.z>>

OnlyComponent(k) == \A j \in (1..3) \ {k} : Triple(pre[call.lhs])[j] = Zero

EulerMatchesAxis(k) ==
    heap[ret] = SingleAxis(Letters(call.rhs)[k], Triple(pre[call.lhs])[k])

C6_EulerSingleAxis ==
    call.op = "quat.fromEuler" =>
        \A k \in 1..3 : OnlyComponent(k) => EulerMatchesAxis(k)

\* what the code guarantees: the claim for the five orders other than XZY,
\* and for XZY only in its third position
C6_Actual ==
    call.op = "quat.fromEuler" =>
        \A k \in 1..3 :
            (OnlyComponent(k) /\ (call.rhs # "XZY" \/ k = 3)) => EulerMatchesAxis(k)

(***************************************************************************)
(* C5: for mat2, mat3 and quat, a product written in place (a.mul(b),      *)
(* a.mul(a), or mul(a, b, b)) leaves the destination equal to what the     *)
(* pure call mul(a_old, b_old) writes into a new object, returns the       *)
(* destination, and leaves b unchanged unless b is the destination.        *)
(***************************************************************************)
Mul2Ops == {"mat2.mul", "Mat2.mul"}

Mul3Ops == {"mat3.mul", "Mat3.mul"}

MulQOps == {"quat.mul", "Quat.mul"}

RhsKept2 == call.rhs # call.out => M2(heap, call.rhs) = M2(pre, call.rhs)

RhsKept3 == call.rhs # call.out => M3(heap, call.rhs) = M3(pre, call.rhs)

RhsKeptQ == call.rhs # call.out => heap[call.rhs] = pre[call.rhs]

C5_InPlaceMulIsPureMul ==
    /\ (call.op \in Mul2Ops /\ call.out # "new2") =>
          /\ ret = call.out
          /\ M2(heap, ret) =
                M2(mat2_mul(mat2_identity(pre, "new2"), call.lhs, call.rhs, "new2").h, "new2")
          /\ RhsKept2
    /\ (call.op \in Mul3Ops /\ call.out # "new") =>
          /\ ret = call.out
          /\ M3(heap, ret) =
                M3(mat3_mul(mat3_identity(pre, "new"), call.lhs, call.rhs, "new").h, "new")
          /\ RhsKept3
    /\ (call.op \in MulQOps /\ call.out # "qnew") =>
          /\ ret = call.out
          /\ heap[ret] =
                quat_mul(quat_identity(pre, "qnew"), call.lhs, call.rhs, "qnew").h["qnew"]
          /\ RhsKeptQ

\* a 3x3 matrix was multiplied by itself in place and changed
C5_Witness ==
    /\ call.op = "Mat3.mul"
    /\ call.rhs = call.lhs
    /\ call.out = call.lhs
    /\ M3(heap, call.out) # M3(pre, call.lhs)
    /\ M3(heap, call.out) = RefMul3(M3(pre, call.lhs), M3(pre, call.lhs))

(***************************************************************************)
(* C7: the instance methods add, sub, mul, scale of a vector change the    *)
(* receiver in place and return it, so that a chain                        *)
(* pos.add(u).scale(k).mul(v) leaves ((pos + u) * k) * v in pos; from      *)
(* (0,0,0) with u = (5,5,5), k = 5, v = (2,2,2) that is (50,50,50), and    *)
(* vec3.sub(pos, copy of pos, pos) then leaves (0,0,0) in pos.             *)
(***************************************************************************)
Pointwise(F(_, _), a, b) == Vec3(F(a.x, b.x), F(a.y, b.y), F(a.z, b.z))

Scaled(a, k) == Vec3(mul(a.x, k), mul(a.y, k), mul(a.z, k))

C7_ChainInPlace ==
    /\ call.op \in {"Vec3.add", "Vec3.sub", "Vec3.mul", "Vec3.scale", "chain", "vec3.sub"} =>
          ret = "pos"
    /\ call.op = "Vec3.add" => heap["pos"] = Pointwise(add, pre["pos"], pre["arg"])
    /\ call.op = "Vec3.sub" => heap["pos"] = Pointwise(sub, pre["pos"], pre["arg"])
    /\ call.op = "Vec3.mul" => heap["pos"] = Pointwise(mul, pre["pos"], pre["arg"])
    /\ call.op = "Vec3.scale" => heap["pos"] = Scaled(pre["pos"], Num(call.idx))
    /\ call.op = "chain" =>
          heap["pos"] = Pointwise(mul, Scaled(Pointwise(add, pre["pos"], pre["arg"]),
                                              Num(call.idx)), pre["arg2"])
    /\ (call.op = "chain" /\ pre["pos"] = Zero3 /\ pre["arg"] = Vec3(Num(5), Num(5), Num(5))
          /\ call.idx = 5 /\ pre["arg2"] = Vec3(Num(2), Num(2), Num(2))) =>
          heap["pos"] = Vec3(Num(50), Num(50), Num(50))
    /\ call.op = "vec3.sub" => heap["pos"] = Zero3

\* the chain of the usage example has run on (0,0,0) and left (50,50,50)
C7_Witness ==
    /\ call.op = "chain"
    /\ pre["pos"] = Zero3
    /\ pre["arg"] = Vec3(Num(5), Num(5), Num(5))
    /\ call.idx = 5
    /\ pre["arg2"] = Vec3(Num(2), Num(2), Num(2))
    /\ heap["pos"] = Vec3(Num(50), Num(50), Num(50))

\* the static subtraction of a copy has brought (50,50,50) back to (0,0,0)
C7_SubWitness ==
    /\ call.op = "vec3.sub"
    /\ pre["pos"] = Vec3(Num(50), Num(50), Num(50))
    /\ heap["pos"] = Zero3

(***************************************************************************)
(* C8: the col and row accessors of mat2 and mat3 throw for every index    *)
(* outside 0..N-1 (N = 2 for mat2, 3 for mat3), negative or >= N, and      *)
(* never for an index inside it.                                           *)
(***************************************************************************)
Index2Ops == {"mat2.col", "Mat2.col", "mat2.row", "Mat2.row"}

Index3Ops == {"mat3.col", "Mat3.col", "mat3.row", "Mat3.row", "mat3ts.col", "mat3ts.row"}

C8_IndexOutOfRangeThrows ==
    /\ call.op \in Index2Ops => ((ret = "throw") <=> (call.idx \notin 0..1))
    /\ call.op \in Index3Ops => ((ret = "throw") <=> (call.idx \notin 0..2))

\* a negative index was rejected by a 2x2 accessor
C8_Witness ==
    /\ call.op \in Index2Ops
    /\ call.idx < 0
    /\ ret = "throw"

\* an index >= N was rejected by a 3x3 accessor
C8_WitnessHigh ==
    /\ call.op \in Index3Ops
    /\ call.idx >= 3
    /\ ret = "throw"

(***************************************************************************)
(* C9: for every 3x3 matrix m and index i in 0..2, mat3.col(m, i) returns  *)
(* the i-th column of m and mat3.row(m, i) the vector of the i-th          *)
(* components of c0, c1, c2, so that row(m, i) = col(transpose(m), i).     *)
(***************************************************************************)
Col3Ops == {"mat3.col", "Mat3.col", "mat3ts.col"}

Row3Ops == {"mat3.row", "Mat3.row", "mat3ts.row"}

C9_ColRowOfIndex ==
    /\ (call.op \in Col3Ops /\ call.idx \in 0..2) =>
          heap[ret] = M3(pre, call.lhs)[call.idx + 1]
    /\ (call.op \in Row3Ops /\ call.idx \in 0..2) =>
          heap[ret] = RefTranspose3(M3(pre, call.lhs))[call.idx + 1]

\* what the code guarantees: the claim for the class snapshot of mat3, and
\* for the rows and the columns 0 and 1 of the types/mat3.ts snapshot, whose
\* col(m, 2) returns c1
C9_Actual ==
    /\ (call.op \in Col3Ops /\ call.idx \in 0..2 /\ ~(call.op = "mat3ts.col" /\ call.idx = 2)) =>
          heap[ret] = M3(pre, call.lhs)[call.idx + 1]
    /\ (call.op = "mat3ts.col" /\ call.idx = 2) => ret = c1(call.lhs)
    /\ (call.op \in Row3Ops /\ call.idx \in 0..2) =>
          heap[ret] = RefTranspose3(M3(pre, call.lhs))[call.idx + 1]

(***************************************************************************)
(* C10: after the Mat3 instance call m.copy(src), all nine entries of m    *)
(* equal those of src, src is unchanged, and m is returned.                *)
(***************************************************************************)
C10_CopyAllEntries ==
    call.op = "Mat3.copy" =>
        /\ ret = call.lhs
        /\ M3(heap, call.lhs) = M3(pre, call.rhs)
        /\ M3(heap, call.rhs) = M3(pre, call.rhs)

\* what the code does: the x and y entries of c0 and c1 are copied, the
\* five other entries of m keep their values; the static mat3.copy copies
\* all nine
C10_Actual ==
    /\ call.op = "Mat3.copy" =>
          /\ ret = call.lhs
          /\ \A c \in {c0(call.lhs), c1(call.lhs)} : heap[c].z = pre[c].z
          /\ heap[c2(call.lhs)] = pre[c2(call.lhs)]
          /\ heap[c0(call.lhs)].x = pre[c0(call.rhs)].x
          /\ heap[c0(call.lhs)].y = pre[c0(call.rhs)].y
          /\ heap[c1(call.lhs)].x = pre[c1(call.rhs)].x
          /\ heap[c1(call.lhs)].y = pre[c1(call.rhs)].y
          /\ M3(heap, call.rhs) = M3(pre, call.rhs)
    /\ call.op = "mat3.copy" =>
          /\ ret = call.lhs
          /\ M3(heap, call.lhs) = M3(pre, call.rhs)
          /\ M3(heap, call.rhs) = M3(pre, call.rhs)

(***************************************************************************)
(* C11: the single-argument constructor quat(v) creates the quaternion     *)
(* (v, v, v, v), all four elements set to v.                               *)
(***************************************************************************)
C11_CreateSplat ==
    (call.op = "quat.create" /\ call.idx = 1) =>
        heap[ret] = Vec4(call.lhs[1], call.lhs[1], call.lhs[1], call.lhs[1])

\* what the code does: w takes its default 1, so quat(v) is (v, v, v, 1);
\* quat() is the identity and the four-argument form keeps its arguments
C11_Actual ==
    /\ (call.op = "quat.create" /\ call.idx = 1) =>
          heap[ret] = Vec4(call.lhs[1], call.lhs[1], call.lhs[1], One)
    /\ (call.op = "quat.create" /\ call.idx = 0) => heap[ret] = IdentQ
    /\ (call.op = "quat.create" /\ call.idx = 3) =>
          heap[ret] = Vec4(call.lhs[1], call.lhs[2], call.lhs[3], One)
    /\ (call.op = "quat.create" /\ call.idx = 4) =>
          heap[ret] = Vec4(call.lhs[1], call.lhs[2], call.lhs[3], call.lhs[4])
    /\ call.op = "quat.zero" => heap[ret] = Zero4
    /\ call.op = "quat.identity" => heap[ret] = IdentQ

(***************************************************************************)
(* C12: mat3.fromAxisAngle(axis, angle) and quat.fromAxisAngle(axis,       *)
(* angle) both abort, producing no result, whenever axis is not            *)
(* normalized.                                                             *)
(***************************************************************************)
AxisOps == {"mat3.fromAxisAngle", "quat.fromAxisAngle"}

C12_NonUnitAxisAborts ==
    (call.op \in AxisOps /\ ~vec3_isNormalized(pre, call.lhs)) =>
        /\ ret = "throw"
        /\ heap = pre

\* what the code does: mat3.fromAxisAngle aborts exactly for the axes that
\* are not normalized; quat.fromAxisAngle never aborts and returns out
\* holding (axis * sin, cos) of the half angle
C12_Actual ==
    /\ call.op = "mat3.fromAxisAngle" =>
          ((ret = "throw") <=> ~vec3_isNormalized(pre, call.lhs))
    /\ call.op = "quat.fromAxisAngle" =>
          /\ ret = call.out
          /\ heap[ret].w = sincos(Rad(Num(call.idx)))[2]
          /\ heap[ret].x = mul(pre[call.lhs].x, sincos(Rad(Num(call.idx)))[1])

\* the Hamilton product of the quaternion values a and b, from the scalar
\* and vector parts: (a.w b.v + b.w a.v + a.v x b.v, a.w b.w - a.v . b.v)
RefCross(a, b) ==
    Vec3(sub(mul(a.y, b.z), mul(a.z, b.y)),
         sub(mul(a.z, b.x), mul(a.x, b.z)),
         sub(mul(a.x, b.y), mul(a.y, b.x)))

RefHamilton(a, b) ==
    LET cr == RefCross(a, b)
    IN  Vec4(add(add(mul(a.w, b.x), mul(b.w, a.x)), cr.x),
             add(add(mul(a.w, b.y), mul(b.w, a.y)), cr.y),
             add(add(mul(a.w, b.z), mul(b.w, a.z)), cr.z),
             sub(mul(a.w, b.w), RefDot(Vec3(a.x, a.y, a.z), Vec3(b.x, b.y, b.z))))

NegQ(a) == Vec4(neg(a.x), neg(a.y), neg(a.z), neg(a.w))

(***************************************************************************)
(* C13: quat.mul(lhs, rhs) is the Hamilton product lhs * rhs in that       *)
(* order: it equals the reference formula, is associative, has (0,0,0,1)   *)
(* as unit on both sides, and mul(i, j) = k while mul(j, i) = -k.          *)
(***************************************************************************)
C13_HamiltonProduct ==
    /\ call.op = "quat.mul" =>
          /\ heap[ret] = RefHamilton(pre[call.lhs], pre[call.rhs])
          /\ (pre[call.lhs] = QuatI /\ pre[call.rhs] = QuatJ) => heap[ret] = QuatK
          /\ (pre[call.lhs] = QuatJ /\ pre[call.rhs] = QuatI) => heap[ret] = NegQ(QuatK)
          /\ heap[call.lhs] = pre[call.lhs]
          /\ heap[call.rhs] = pre[call.rhs]
    /\ call.op = "quat.mul.unit" =>
          /\ heap[call.rhs] = IdentQ
          /\ heap[call.out] = pre["P"]
          /\ heap[ret] = pre["P"]
    /\ call.op = "quat.mul.assoc" =>
          /\ heap[ret] = heap[call.out]
          /\ heap[ret] = RefHamilton(RefHamilton(pre["P"], pre["Q"]), pre["S"])

\* mul(j, i) was computed and is -k, which mul(i, j) is not
C13_Witness ==
    /\ call.op = "quat.mul"
    /\ pre[call.lhs] = QuatJ
    /\ pre[call.rhs] = QuatI
    /\ heap[ret] = NegQ(QuatK)
    /\ heap[ret] # RefHamilton(pre[call.rhs], pre[call.lhs])

\* three quaternions that do not commute pairwise were multiplied in both
\* bracketings
C13_AssocWitness ==
    /\ call.op = "quat.mul.assoc"
    /\ RefHamilton(pre["P"], pre["Q"]) # RefHamilton(pre["Q"], pre["P"])
    /\ RefHamilton(pre["Q"], pre["S"]) # RefHamilton(pre["S"], pre["Q"])
    /\ heap[ret] # Zero4

(***************************************************************************)
(* C14: for every quaternion q, mul(q, conj(q)) = (0, 0, 0, len2(q)),      *)
(* where conj(q) negates x, y, z and keeps w; for q of squared length 1    *)
(* the product is the identity (0, 0, 0, 1).                               *)
(***************************************************************************)
C14_MulConjIsLen2 ==
    call.op = "quat.mul.conj" =>
        /\ heap[call.rhs] = Vec4(neg(pre["P"].x), neg(pre["P"].y), neg(pre["P"].z), pre["P"].w)
        /\ heap[ret] = Vec4(Zero, Zero, Zero, vec4_len2(pre, "P"))
        /\ vec4_len2(pre, "P") = One => heap[ret] = IdentQ
        /\ heap["P"] = pre["P"]

\* a quaternion with four nonzero components was multiplied with its
\* conjugate
C14_Witness ==
    /\ call.op = "quat.mul.conj"
    /\ \A f \in {"x", "y", "z", "w"} : pre["P"][f] # Zero
    /\ heap[ret].w = Num(4)

\* a quaternion of squared length 1 other than the identity gave the identity
C14_UnitWitness ==
    /\ call.op = "quat.mul.conj"
    /\ vec4_len2(pre, "P") = One
    /\ pre["P"] # IdentQ
    /\ heap[ret] = IdentQ

(***************************************************************************)
(* C15: mul(A, B) is fromCols(A * B.c0, A * B.c1[, A * B.c2]), for mat2    *)
(* and mat3; so vmul(mul(A, B), v) = vmul(A, vmul(B, v)) for every v, and  *)
(* the identity matrix is a unit for mul on both sides.                    *)
(***************************************************************************)
C15_MulIsColumnwiseVmul ==
    /\ call.op = "mat3.mul.vmul" =>
          /\ M3(heap, call.out) = <<RefVmul3(M3(pre, "A"), pre[c0("B")]),
                                    RefVmul3(M3(pre, "A"), pre[c1("B")]),
                                    RefVmul3(M3(pre, "A"), pre[c2("B")])>>
          /\ heap[ret] = RefVmul3(M3(pre, "A"), RefVmul3(M3(pre, "B"), pre["U"]))
          /\ M3(heap, "A") = M3(pre, "A") /\ M3(heap, "B") = M3(pre, "B") /\ heap["U"] = pre["U"]
    /\ call.op = "mat3.vmul.vmul" =>
          /\ heap[call.out] = heap[ret]
          /\ heap[ret] = RefVmul3(M3(pre, "A"), RefVmul3(M3(pre, "B"), pre["U"]))
          /\ M3(heap, "A") = M3(pre, "A") /\ M3(heap, "B") = M3(pre, "B") /\ heap["U"] = pre["U"]
    /\ call.op = "mat3.mul.unit" =>
          /\ M3(heap, call.rhs) = Ident3
          /\ M3(heap, call.out) = M3(pre, "A")
          /\ M3(heap, ret) = M3(pre, "A")
    /\ call.op = "mat2.mul.vmul" =>
          /\ M2(heap, "new2") = <<RefVmul2(M2(pre, "M"), pre[c0("N")]),
                                  RefVmul2(M2(pre, "M"), pre[c1("N")])>>
          /\ heap[call.out] = heap[ret]
          /\ heap[ret] = RefVmul2(M2(pre, "M"), RefVmul2(M2(pre, "N"), pre["U"]))
          /\ M2(heap, "M") = M2(pre, "M") /\ M2(heap, "N") = M2(pre, "N") /\ heap["U"] = pre["U"]
    /\ call.op = "mat2.mul.unit" =>
          /\ M2(heap, call.rhs) = Ident2
          /\ M2(heap, call.out) = M2(pre, "M")
          /\ M2(heap, ret) = M2(pre, "M")

\* two 3x3 matrices that do not commute were multiplied and applied to a
\* vector with three nonzero entries
C15_Witness ==
    /\ call.op = "mat3.vmul.vmul"
    /\ RefMul3(M3(pre, "A"), M3(pre, "B")) # RefMul3(M3(pre, "B"), M3(pre, "A"))
    /\ pre["U"] = Vec3(One, One, One)
    /\ heap[ret] # RefVmul3(M3(pre, "B"), RefVmul3(M3(pre, "A"), pre["U"]))

\* a 2x2 matrix other than the identity was multiplied by the identity
C15_UnitWitness ==
    /\ call.op = "mat2.mul.unit"
    /\ M2(pre, "M") # Ident2
    /\ M2(heap, ret) = M2(pre, "M")

(***************************************************************************)
(* C16: for every nonsingular matrix M (mat2 and mat3), the matrix N       *)
(* returned by the static inv(M) satisfies mul(M, N) = mul(N, M) =         *)
(* identity and inv(N) = M, and M is not modified; the inverse of          *)
(* mat2(1, 2, 3, 4) is mat2(-2, 1, 1.5, -0.5).                             *)
(***************************************************************************)
Round3Ops == {"mat3.inv", "mat3.mul.MN", "mat3.mul.NM", "mat3.inv.back"}

C16_InverseRoundTrip ==
    /\ (call.op \in Round3Ops /\ Has("MN.c0")) =>
          /\ M3(heap, "A") = M3(pre, "A")
          /\ call.op = "mat3.inv" => ((ret = "throw") <=> (RefDet3(M3(pre, "A")) = Zero))
          /\ call.op = "mat3.mul.MN" => M3(heap, ret) = Ident3
          /\ call.op = "mat3.mul.NM" => M3(heap, ret) = Ident3
          /\ call.op = "mat3.inv.back" =>
                /\ ret # "throw"
                /\ M3(heap, ret) = M3(heap, "A")
                /\ M3(heap, "MN") = Ident3
                /\ M3(heap, "NM") = Ident3
    /\ call.op = "mat2.inv.round" =>
          IF RefDet2(M2(pre, "M")) = Zero THEN ret = "throw"
          ELSE /\ ret # "throw"
               /\ M2(heap, "MN") = Ident2
               /\ M2(heap, "NM") = Ident2
               /\ M2(heap, ret) = M2(pre, "M")
               /\ M2(heap, "M") = M2(pre, "M")
               /\ M2(pre, "M") = Mat1234 =>
                     M2(heap, "N") = <<Vec2(Num(-2), One), Vec2(Rat(3, 2), Rat(-1, 2))>>

\* a 3x3 matrix with determinant -1 was inverted, multiplied with its
\* inverse on both sides, and the inverse inverted back
C16_Witness ==
    /\ call.op = "mat3.inv.back"
    /\ RefDet3(M3(heap, "A")) = Num(-1)
    /\ M3(heap, "N") # M3(heap, "A")
    /\ M3(heap, "N") # RefTranspose3(M3(heap, "A"))
    /\ M3(heap, ret) = M3(heap, "A")

\* mat2(1, 2, 3, 4), of determinant -2, was inverted
C16_ExampleWitness ==
    /\ call.op = "mat2.inv.round"
    /\ M2(pre, "M") = Mat1234
    /\ M2(heap, "N") = <<Vec2(Num(-2), One), Vec2(Rat(3, 2), Rat(-1, 2))>>

(***************************************************************************)
(* C17: mat3.det(M) is dot(c2, cross(c0, c1)) and equals the cofactor      *)
(* expansion for every M: det(identity) = 1, det(zero matrix) = 0,         *)
(* det(transpose(M)) = det(M) and det(mul(A, B)) = det(A) * det(B).        *)
(***************************************************************************)
C17_DetIsTripleProduct ==
    /\ call.op = "mat3.det" =>
          /\ ret = RefDot(pre[c2(call.lhs)], RefCross(pre[c0(call.lhs)], pre[c1(call.lhs)]))
          /\ ret = RefDet3(M3(pre, call.lhs))
          /\ heap = pre
    /\ call.op = "mat3.det.identity" => (M3(heap, call.lhs) = Ident3 /\ ret = One)
    /\ call.op = "mat3.det.zero" => (M3(heap, call.lhs) = <<Zero3, Zero3, Zero3>> /\ ret = Zero)
    /\ call.op = "mat3.det.transpose" =>
          /\ M3(heap, call.lhs) = RefTranspose3(M3(pre, "A"))
          /\ ret = mat3_det(pre, "A")
    /\ call.op = "mat3.det.mul" =>
          /\ M3(heap, call.lhs) = RefMul3(M3(pre, "A"), M3(pre, "B"))
          /\ ret = mul(mat3_det(pre, "A"), mat3_det(pre, "B"))

\* the determinant of a product with factors of determinant other than 0
\* and 1 was taken
C17_Witness ==
    /\ call.op = "mat3.det.mul"
    /\ RefDet3(M3(pre, "A")) \notin {Zero, One}
    /\ RefDet3(M3(pre, "B")) \notin {Zero, One}
    /\ ret = mul(RefDet3(M3(pre, "A")), RefDet3(M3(pre, "B")))

\* the determinant of the transpose of a non-symmetric matrix with nonzero
\* determinant was taken
C17_TransposeWitness ==
    /\ call.op = "mat3.det.transpose"
    /\ M3(heap, call.lhs) # M3(pre, "A")
    /\ ret # Zero
    /\ ret = RefDet3(M3(pre, "A"))

\* the x and y of a 3D vector value
RefXY(v) == Vec2(v.x, v.y)

\* the third row of the matrix value p is (0, 0, 1)
AffineRow(p) == p[1].z = Zero /\ p[2].z = Zero /\ p[3].z = One

(***************************************************************************)
(* C18: for every 3x3 matrix m with third row (0, 0, 1) and every 2D       *)
(* vector p, transformVec2(m, p) is the xy part of vmul3(m, (p.x, p.y,     *)
(* 0)) and transformPoint2(m, p) is the xy part of vmul3(m, (p.x, p.y,     *)
(* 1)), that is transformVec2(m, p) plus the xy of c2; m and p are not     *)
(* modified when out is a distinct object.                                 *)
(***************************************************************************)
TransformPointOps == {"mat3.transformPoint2", "mat3ts.transformPoint2"}

C18_Transform2IsVmul3 ==
    /\ (call.op = "mat3.transformVec2" /\ AffineRow(M3(pre, "A"))) =>
          /\ heap[ret] = RefXY(RefVmul3(M3(pre, "A"), Vec3(pre["U"].x, pre["U"].y, Zero)))
          /\ M3(heap, "A") = M3(pre, "A")
          /\ heap["U"] = pre["U"]
    /\ (call.op \in TransformPointOps /\ AffineRow(M3(pre, "A"))) =>
          /\ heap[ret] = RefXY(RefVmul3(M3(pre, "A"), Vec3(pre["U"].x, pre["U"].y, One)))
          /\ heap[ret] = Vec2(add(RefVmul2(<<RefXY(pre[c0("A")]), RefXY(pre[c1("A")])>>, pre["U"]).x,
                                  pre[c2("A")].x),
                              add(RefVmul2(<<RefXY(pre[c0("A")]), RefXY(pre[c1("A")])>>, pre["U"]).y,
                                  pre[c2("A")].y))
          /\ M3(heap, "A") = M3(pre, "A")
          /\ heap["U"] = pre["U"]

\* a point was transformed by a matrix with a translation, into the
\* supplied vector, which differs from the transformed direction
C18_Witness ==
    /\ call.op = "mat3.transformPoint2"
    /\ call.out = "W"
    /\ AffineRow(M3(pre, "A"))
    /\ pre[c2("A")] = Vec3(Num(2), Num(4), One)
    /\ pre["U"] = Vec2(One, Num(-1))
    /\ heap["W"] # RefVmul2(<<RefXY(pre[c0("A")]), RefXY(pre[c1("A")])>>, pre["U"])
    /\ ret = "W"

\* a direction was transformed by a matrix whose 2x2 block is not symmetric
C18_VecWitness ==
    /\ call.op = "mat3.transformVec2"
    /\ AffineRow(M3(pre, "A"))
    /\ pre[c0("A")].y # pre[c1("A")].x
    /\ heap[ret] # Zero2

(***************************************************************************)
(* C19: degenerate inputs never abort and never yield a non-finite         *)
(* number; they return a fixed sentinel: normalizeSafe of the zero vector  *)
(* returns the zero vector, quat.fromScaledAxis of the zero vector returns *)
(* the identity (0, 0, 0, 1), and quat.toAxisAngle of a quaternion with    *)
(* 1 - w*w below epsilon squared returns the axis (1, 0, 0).               *)
(***************************************************************************)
NormalizeSafeOps == {"vec4.normalizeSafe", "Vec4.normalizeSafe"}

\* 1 - w*w of the quaternion value q is below epsilon squared
NearIdentity(q) == lt_epsilon2(sub(One, mul(q.w, q.w)))

C19_DegenerateGivesSentinel ==
    /\ (call.op \in NormalizeSafeOps /\ pre[call.lhs] = Zero4) =>
          /\ ret = call.out
          /\ heap[ret] = Zero4
    /\ (call.op = "quat.fromScaledAxis" /\ pre[call.lhs] = Zero3) =>
          /\ ret = call.out
          /\ heap[ret] = IdentQ
    /\ (call.op = "quat.toAxisAngle" /\ NearIdentity(pre[call.lhs])) =>
          /\ ret.axis = call.out
          /\ heap[ret.axis] = Vec3(One, Zero, Zero)
          /\ ~ret.radians.nan

\* what the code does: the three sentinels are returned, in the object
\* the caller supplied, and the angle returned with the axis (1, 0, 0) is
\* NaN exactly when w is outside [-1, 1]
C19_Actual ==
    /\ (call.op \in NormalizeSafeOps /\ pre[call.lhs] = Zero4) =>
          /\ ret = call.out
          /\ heap[ret] = Zero4
    /\ (call.op = "quat.fromScaledAxis" /\ pre[call.lhs] = Zero3) =>
          /\ ret = call.out
          /\ heap[ret] = IdentQ
    /\ (call.op = "quat.toAxisAngle" /\ NearIdentity(pre[call.lhs])) =>
          /\ ret.axis = call.out
          /\ heap[ret.axis] = Vec3(One, Zero, Zero)
          /\ ret.radians.nan <=> lt(One, abs(pre[call.lhs].w))
    /\ (call.op = "quat.toAxisAngle" /\ ~NearIdentity(pre[call.lhs])) => ~ret.radians.nan

(***************************************************************************)
(* C20: for every incident vector l and every unit normal n, the 2D        *)
(* reflect(l, n) returns l - 2 * dot(l, n) * n; in particular              *)
(* reflect(n, n) = -n and reflect(reflect(l, n), n) = l.                   *)
(***************************************************************************)
Vec2ReflectOps == {"vec2.reflect", "Vec2.reflect"}

UnitNormal == num2_dot(pre["N"], pre["N"]) = One

\* l - k * dot(l, n) * n on values
RefReflect(l, n, k) == num2_sub(l, num2_scalar(n, mul(k, num2_dot(l, n))))

C20_ReflectMirrors ==
    /\ (call.op \in Vec2ReflectOps /\ UnitNormal) =>
          /\ ret = call.out
          /\ heap[ret] = RefReflect(pre["L"], pre["N"], Num(2))
    /\ (call.op = "num2.reflect" /\ UnitNormal) =>
          ret = RefReflect(pre["L"], pre["N"], Num(2))
    /\ (call.op = "vec2.reflect.twice" /\ UnitNormal) =>
          /\ ret = call.out
          /\ heap[ret] = pre["L"]

\* what the code does: reflect subtracts the projection once, so it
\* returns the part of l orthogonal to n, l - dot(l, n) * n; reflect(n, n)
\* is the zero vector and reflecting twice gives the same as reflecting
\* once.  vec2.reflect aborts when n is not normalized, num2.reflect does not
C20_Actual ==
    /\ (call.op \in Vec2ReflectOps /\ UnitNormal) =>
          /\ ret = call.out
          /\ heap[ret] = RefReflect(pre["L"], pre["N"], One)
          /\ pre["L"] = pre["N"] => heap[ret] = Vec2(Zero, Zero)
    /\ call.op = "num2.reflect" =>
          ret = RefReflect(pre["L"], pre["N"], One)
    /\ (call.op = "vec2.reflect.twice" /\ UnitNormal) =>
          /\ ret = call.out
          /\ heap[ret] = RefReflect(pre["L"], pre["N"], One)
    /\ (call.op \in Vec2ReflectOps \cup {"vec2.reflect.twice"}) =>
          (ret = "throw" <=> ~vec2_isNormalized(pre, "N"))
    /\ (call.op \in Vec2ReflectOps \cup {"vec2.reflect.twice"} /\ call.out # "L") =>
          /\ heap["L"] = pre["L"]
          /\ heap["N"] = pre["N"]

(***************************************************************************)
(* C21: the named axis constants agree across dimensions and with their    *)
(* documentation: in vec2, vec3 and vec4 alike right / left are the unit   *)
(* vectors along +x / -x and up / down the unit vectors along +y / -y, so  *)
(* truncating a vec4 constant gives the vec3 constant of the same name.    *)
(***************************************************************************)
\* the documented vector of a name, as x, y, z, w
DocAxis(name) ==
    CASE name = "right" -> <<One, Zero, Zero, Zero>>
      [] name = "left" -> <<Num(-1), Zero, Zero, Zero>>
      [] name = "up" -> <<Zero, One, Zero, Zero>>
      [] name = "down" -> <<Zero, Num(-1), Zero, Zero>>
      [] name = "forward" -> <<Zero, Zero, One, Zero>>
      [] name = "back" -> <<Zero, Zero, Num(-1), Zero>>

AxisNames == {"right", "left", "up", "down", "forward", "back"}

\* the first n components of the vector v
Trunc(v, n) == SubSeq(<<v.x, v.y, IF "z" \in DOMAIN v THEN v.z ELSE Zero,
                        IF "w" \in DOMAIN v THEN v.w ELSE Zero>>, 1, n)

C21_NamedAxesAgree ==
    (call.op \in {"vec2", "vec3", "vec4"} /\ call.rhs \in AxisNames) =>
        /\ ret = call.out
        /\ Trunc(heap[ret], call.idx) = SubSeq(DocAxis(call.rhs), 1, call.idx)

\* what the code does: vec2 and vec3 follow the documentation; in vec4 the
\* x and y axes are exchanged: up / down are (1,0,0,0) / (-1,0,0,0) and
\* right / left are (0,1,0,0) / (0,-1,0,0); forward and back agree
Vec4Axis(name) ==
    CASE name = "up" -> DocAxis("right")
      [] name = "down" -> DocAxis("left")
      [] name = "right" -> DocAxis("up")
      [] name = "left" -> DocAxis("down")
      [] OTHER -> DocAxis(name)

C21_Actual ==
    /\ (call.op \in {"vec2", "vec3"} /\ call.rhs \in AxisNames) =>
          /\ ret = call.out
          /\ Trunc(heap[ret], call.idx) = SubSeq(DocAxis(call.rhs), 1, call.idx)
    /\ (call.op = "vec4" /\ call.rhs \in AxisNames) =>
          /\ ret = call.out
          /\ Trunc(heap[ret], 4) = Vec4Axis(call.rhs)

(***************************************************************************)
(* C22: for each coordinate axis e in right = (1,0,0), up = (0,1,0),       *)
(* forward = (0,0,1) and every angle t, mat3.fromAxisAngle(e, t) equals,   *)
(* entry by entry, mat3.fromRotationX(t), fromRotationY(t),                *)
(* fromRotationZ(t) respectively; at a half turn the X case equals the     *)
(* diagonal matrix diag(1, -1, -1).                                        *)
(***************************************************************************)
RotationOps == {"mat3.rotationX", "mat3.rotationY", "mat3.rotationZ"}

\* the rotation about a coordinate axis by the angle of sine s and cosine
\* c, as columns
RefRotation(op, s, c) ==
    CASE op = "mat3.rotationX" -> <<Vec3(One, Zero, Zero), Vec3(Zero, c, s), Vec3(Zero, neg(s), c)>>
      [] op = "mat3.rotationY" -> <<Vec3(c, Zero, neg(s)), Vec3(Zero, One, Zero), Vec3(s, Zero, c)>>
      [] op = "mat3.rotationZ" -> <<Vec3(c, s, Zero), Vec3(neg(s), c, Zero), Vec3(Zero, Zero, One)>>

C22_AxisAngleIsCoordinateRotation ==
    call.op \in RotationOps =>
        LET sc == sincos(Rad(call.rhs))
        IN  /\ ret # "throw"
            /\ M3(heap, call.out) = M3(heap, ret)
            /\ M3(heap, ret) = RefRotation(call.op, sc[1], sc[2])
            /\ (call.op = "mat3.rotationX" /\ call.rhs = HalfTurn) =>
                  M3(heap, call.out) = <<Vec3(One, Zero, Zero), Vec3(Zero, Num(-1), Zero),
                                         Vec3(Zero, Zero, Num(-1))>>

\* a rotation about y by an angle with sine 4/5 and cosine -3/5 was built
\* both ways into supplied matrices
C22_Witness ==
    /\ call.op = "mat3.rotationY"
    /\ call.out = "A"
    /\ ret = "B"
    /\ call.rhs = Num(2)
    /\ heap["B.c0"] = Vec3(Rat(-3, 5), Zero, Rat(-4, 5))
    /\ M3(heap, "A") = M3(heap, "B")

\* the half turn about x was built both ways
C22_HalfTurnWitness ==
    /\ call.op = "mat3.rotationX"
    /\ call.rhs = HalfTurn
    /\ heap[c1(ret)] = Vec3(Zero, Num(-1), Zero)

(***************************************************************************)
(* C23: when an operation aborts on a violated precondition (inv of a      *)
(* singular matrix, col / row with an index out of range, fromAxisAngle    *)
(* with a non-unit axis, quat.angle with a non-normalized operand,         *)
(* fromEuler / toEuler with an unknown order), it leaves no partial        *)
(* result: the supplied out object, the receiver and all operands hold     *)
(* exactly the values they had before the call.                            *)
(***************************************************************************)
AbortOps ==
    {"mat2.inv", "Mat2.inv", "mat2.col", "mat2.row", "mat3.inv", "Mat3.inv", "mat3.col", "mat3.row",
     "mat3.fromAxisAngle", "quat.angle", "quat.fromEuler", "quat.toEuler"}

C23_AbortLeavesNoPartialResult ==
    (call.op \in AbortOps /\ ret = "throw") => heap = pre

\* mat3.inv of a singular matrix into a supplied matrix aborted
C23_Witness ==
    /\ call.op = "mat3.inv"
    /\ call.out = "B"
    /\ ret = "throw"
    /\ M3(pre, "A") # Ident3
    /\ M3(heap, "B") = M3(pre, "B")

\* quat.toEuler with an unknown order and a supplied out aborted
C23_OrderWitness ==
    /\ call.op = "quat.toEuler"
    /\ call.rhs \notin EulerRot
    /\ ret = "throw"
    /\ heap["O3"] = Vec3(One, One, One)

\* quat.angle with a non-normalized operand aborted after quat.fromEuler
\* had written its result
C23_AngleWitness ==
    /\ call.op = "quat.angle"
    /\ ret = "throw"
    /\ heap["O4"] # Vec4(One, One, One, One)

(***************************************************************************)
(* C24: a static operation called without an out argument mutates none of  *)
(* its operands and returns a newly allocated object distinct from every   *)
(* operand; an operation called with an out argument mutates only that out *)
(* object (no other operand or previously returned value changes), over    *)
(* any sequence of calls.                                                  *)
(***************************************************************************)
FrameOps ==
    {"vec4.add", "vec4.sub", "vec4.mul", "vec4.scale", "quat.mul", "quat.conj",
     "mat3.mul", "mat3.vmul3"}

\* the module-scope temporaries, which no caller holds
ScratchIds == DOMAIN Mat3Scratch \cup DOMAIN QuatScratch

\* every object that existed before the call, other than the temporaries
\* and the objects in `written`, holds the value it had
FrameKept(written) ==
    \A id \in DOMAIN pre \ (ScratchIds \cup written) : heap[id] = pre[id]

C24_FreshWitness ==
    /\ call.op = "mat3.mul"
    /\ call.idx = 0
    /\ call.lhs = "n1"
    /\ ret = "n2"
    /\ M3(heap, "n2") # M3(heap, "n1")

(***************************************************************************)
(* C25: Euler round trip: for each of the six orders and every angle       *)
(* triple e away from the gimbal-lock singularities,                       *)
(* toEuler(fromEuler(e, order), order) equals e up to the library's        *)
(* epsilon.                                                                *)
(***************************************************************************)
\* tan(e / 2) of the angle e given by r = tan(e / 4)
FullAngle(r) == div(mul(Num(2), r), sub(One, mul(r, r)))

\* two angles, given by the tangents of their halves, differ by at most
\* epsilon; below a half turn the tangents differ by no more than the angles
SameAngle(a, b) ==
    IF a[2] = 0 \/ b[2] = 0 THEN a = b ELSE ~lt(epsilon, abs(sub(a, b)))

\* no argument of Math.asin in toEuler(q, euler) is 1 or -1 or beyond
AwayFromGimbalLock(q, euler) ==
    \A k \in 1..3 :
        LET term == toEuler_terms(q, euler)[k]
        IN  term.f = "asin" => lt(abs(term.y), One)

\* the vector toEuler wrote holds the angles x, y, z (as quarter tangents)
EulerIs(x, y, z) ==
    /\ SameAngle(heap["O3"].x, FullAngle(x))
    /\ SameAngle(heap["O3"].y, FullAngle(y))
    /\ SameAngle(heap["O3"].z, FullAngle(z))

C25_EulerRoundTrip ==
    (call.op = "quat.toEuler" /\ AwayFromGimbalLock(heap[call.lhs], call.rhs)) =>
        /\ ret = "O3"
        /\ EulerIs(heap["rot"].x, heap["rot"].y, heap["rot"].z)

\* what the code does: toEuler returns out; for a triple (a, 0, 0) the
\* result is (a, 0, 0) for YXZ and XYZ, (0, a, 0) for ZYX and ZXY,
\* (0, 0, -a) for YZX and (0, 0, 0) for XZY, which never reads rot.x; YXZ
\* also brings back (0, b, 0) and (0, 0, c)
C25_Actual ==
    (call.op = "quat.toEuler" /\ AwayFromGimbalLock(heap[call.lhs], call.rhs)) =>
        LET e == heap["rot"]
            a == e.x
        IN  /\ ret = "O3"
            /\ pre["O4"] = heap["O4"]
            /\ (e.y = Zero /\ e.z = Zero) =>
                  CASE call.rhs \in {"YXZ", "XYZ"} -> EulerIs(a, Zero, Zero)
                    [] call.rhs \in {"ZYX", "ZXY"} -> EulerIs(Zero, a, Zero)
                    [] call.rhs = "YZX" -> EulerIs(Zero, Zero, neg(a))
                    [] call.rhs = "XZY" -> EulerIs(Zero, Zero, Zero)
            /\ call.rhs = "YXZ" => EulerIs(e.x, e.y, e.z)

\* the round trip of order ZYX on a turn about one axis came back with the
\* angle in another component
C25_Witness ==
    /\ call.op = "quat.toEuler"
    /\ call.rhs = "ZYX"
    /\ heap["rot"] = Vec3(Rat(1, 3), Zero, Zero)
    /\ heap["O3"] = Vec3(Zero, Rat(3, 4), Zero)

\* a round trip of order YXZ came back unchanged
C25_YawWitness ==
    /\ call.op = "quat.toEuler"
    /\ call.rhs = "YXZ"
    /\ heap["rot"].x = Rat(1, 5)
    /\ EulerIs(heap["rot"].x, heap["rot"].y, heap["rot"].z)

(***************************************************************************)
(* C26: quat.fromScaledAxis(v, out) returns the supplied out object        *)
(* holding the result for every v: the identity when v is exactly zero,    *)
(* and otherwise the quaternion fromAxisAngle(v / len(v), len(v)).         *)
(***************************************************************************)
\* the value of quat.fromAxisAngle(v / len(v), len(v)) for the nonzero v in
\* the object "S" before the call
RefScaledAxis ==
    LET len == vec3_len(pre, "S")
        unit == vec3_scale(pre, "S", div(One, len), "quat.v1")
    IN  quat_fromAxisAngle(unit, "quat.v1", len, "O4").h["O4"]

C26_FromScaledAxisReturnsOut ==
    (call.op = "quat.fromScaledAxis" /\ call.out = "O4") =>
        /\ ret = "O4"
        /\ heap["O4"] = (IF pre["S"] = Zero3 THEN IdentQ ELSE RefScaledAxis)

\* what the code does: for the zero vector out is returned holding the
\* identity; otherwise a new quaternion holding the result is returned and
\* out keeps the value it had.  The shared identity is never written
C26_Actual ==
    (call.op = "quat.fromScaledAxis" /\ call.out = "O4") =>
        /\ heap["quat.identity"] = IdentQ
        /\ IF pre["S"] = Zero3
           THEN ret = "O4" /\ heap["O4"] = IdentQ
           ELSE /\ ret = "qnew2"
                /\ heap["qnew2"] = RefScaledAxis
                /\ heap["O4"] = pre["O4"]

\* a nonzero v with out supplied: the result is in another object and out
\* holds what it held
C26_Witness ==
    /\ call.op = "quat.fromScaledAxis"
    /\ call.out = "O4"
    /\ pre["S"] = Vec3(Zero, Num(3), Num(4))
    /\ ret = "qnew2"
    /\ heap["qnew2"] # heap["O4"]
    /\ heap["O4"] = pre["O4"]

\* the zero vector with out supplied: out is returned holding the identity
C26_ZeroWitness ==
    /\ call.op = "quat.fromScaledAxis"
    /\ call.out = "O4"
    /\ pre["S"] = Zero3
    /\ pre["O4"] # IdentQ
    /\ ret = "O4"
    /\ heap["O4"] = IdentQ

(***************************************************************************)
(* C27: for each of the 24 proper rotation matrices with entries in        *)
(* {-1, 0, 1} given as columns to quat.fromAxes (or via fromMat3), exactly *)
(* one of the four branches is taken, the quantity under the square root   *)
(* in that branch is at least 1, and the resulting quaternion has squared  *)
(* length exactly 1; the identity and the half turns about x, y, z select  *)
(* the w-, x-, y- and z-branch and give (0, 0, 0, 1), (1, 0, 0, 0),        *)
(* (0, 1, 0, 0), (0, 0, 1, 0).                                             *)
(***************************************************************************)
AxesOps == {"quat.fromAxes", "quat.fromMat3"}

\* the square of a fraction or of a multiple of a root
SquareOf(v) ==
    IF Len(v) = 3 THEN mul(mul(<<v[1], v[2]>>, <<v[1], v[2]>>), Num(v[3])) ELSE mul(v, v)

Diag3(a, b, c) == <<Vec3(a, Zero, Zero), Vec3(Zero, b, Zero), Vec3(Zero, Zero, c)>>

\* the branch and the quaternion for the matrix m
AxesGive(m, name, q) ==
    M3(pre, "A") = m => (fromAxes_branch(m[1], m[2], m[3]).name = name /\ heap[ret] = q)

C27_QuarterWitness ==
    /\ call.op = "quat.fromMat3"
    /\ fromAxes_branch(pre["A.c0"], pre["A.c1"], pre["A.c2"]).four = Num(2)
    /\ heap[ret].w = <<1, 2, 2>>

\* all 24 matrices are inputs
C27_AllWitness ==
    /\ call.op \in AxesOps
    /\ Cardinality(RotationMats) = 24
    /\ M3(pre, "A") = <<Vec3(Zero, One, Zero), Vec3(Zero, Zero, One), Vec3(One, Zero, Zero)>>
    /\ heap[ret] = Vec4(Rat(1, 2), Rat(1, 2), Rat(1, 2), Rat(1, 2))

(***************************************************************************)
(* C28: the result of every operation is a function of its arguments only: *)
(* for any two sequences of prior library calls, the same call on equal    *)
(* arguments returns equal values, because each module-scope scratch       *)
(* temporary is fully overwritten before it is read and the shared         *)
(* identity quaternion used by fromScaledAxis is never modified.           *)
(***************************************************************************)
ScratchOps ==
    {"mat3.mul", "mat3.vmul3", "mat3.transpose", "mat3.transformVec2", "mat3.fromRotationX",
     "quat.fromEuler", "quat.fromScaledAxis"}

\* the objects a call of SpecScratch may have written before this one
Written == DOMAIN AllScratch \cup Parts("O") \cup {"OU", "O2", "O4", "qnew2"}

\* the heap h as it would be had no call been made before: the temporaries
\* and the out objects hold what they held at the start
Pristine(h) ==
    [id \in DOMAIN h |->
        IF id \in Written
        THEN (IF "A.c0" \in DOMAIN h THEN HeapScratch3[id] ELSE HeapScratchQ[id])
        ELSE h[id]]

\* the value the result r has in h: the columns of a matrix, or the vector
ResultValue(h, r) == IF c0(r) \in DOMAIN h THEN M3(h, r) ELSE h[r]

C28_ResultDependsOnArgumentsOnly ==
    call.op \in ScratchOps =>
        LET first == Apply(Pristine(pre), call.op, call.lhs, call.rhs, call.out)
        IN  /\ ret = first.r
            /\ ResultValue(heap, ret) = ResultValue(first.h, first.r)
            /\ heap["quat.identity"] = IdentQ

\* a product of a matrix and a vector computed while the temporary v4 and
\* out held the remains of other calls
C28_Witness ==
    /\ call.op = "mat3.vmul3"
    /\ pre["mat3.v4"] # Zero3
    /\ pre["mat3.v4"] # heap["mat3.v4"]
    /\ pre["OU"] # Zero3
    /\ pre["OU"] # heap["OU"]

\* fromScaledAxis of the zero vector after fromEuler and fromScaledAxis of
\* other vectors: the identity is copied from the shared constant
C28_IdentityWitness ==
    /\ call.op = "quat.fromScaledAxis"
    /\ call.lhs = "S0"
    /\ pre["quat.v1"] # Zero3
    /\ pre["quat.q1"] # Zero4
    /\ pre["O4"] # IdentQ
    /\ heap["O4"] = IdentQ

(***************************************************************************)
(* C29: no object returned to a caller, and no column of a matrix returned *)
(* to a caller, is ever the same object as a module-scope scratch          *)
(* temporary or the shared identity quaternion, after any sequence of      *)
(* operations; builders such as fromCols copy component values and never   *)
(* retain a reference to the vectors passed in.                            *)
(***************************************************************************)
AliasOps == {"mat3.fromCols", "mat3.transpose", "mat3.col", "quat.fromScaledAxis"}

\* the objects of module scope
Hidden == DOMAIN AllScratch

\* the objects the fields of the matrix m refer to
ColumnsOf(m) == {heap[m].c0, heap[m].c1, heap[m].c2}

C29_NoScratchEscapes ==
    (call.op \in AliasOps /\ ret # "throw") =>
        /\ ret \notin Hidden
        /\ Has("M") =>
              /\ \A m \in AliasMats :
                    /\ ColumnsOf(m) \cap Hidden = {}
                    /\ Cardinality(ColumnsOf(m)) = 3
                    /\ \A n \in AliasMats \ {m} : ColumnsOf(m) \cap ColumnsOf(n) = {}
              /\ call.op = "mat3.fromCols" =>
                    /\ ret = call.out
                    /\ ColumnsOf(ret) \cap {"X", "Y", "Z"} = {}
                    /\ heap[heap[ret].c0] = pre[call.lhs]
                    /\ heap[heap[ret].c1] = pre["Y"]
                    /\ heap[heap[ret].c2] = pre["Z"]
                    /\ \A v \in {"X", "Y", "Z"} : heap[v] = pre[v]
              /\ call.op = "mat3.col" => ret \in ColumnsOf(call.lhs)

\* a transpose, whose columns are built in the temporaries v1, v2, v3,
\* returned a new matrix with columns of its own holding their values
C29_Witness ==
    /\ call.op = "mat3.transpose"
    /\ ret = "mnew"
    /\ heap[heap["mnew"].c0] = heap["mat3.v1"]
    /\ heap["mnew"].c0 # "mat3.v1"
    /\ heap["mat3.v1"] # Zero3
    /\ pre["mat3.v1"] # heap["mat3.v1"]

\* fromCols on a column of another matrix: the value is copied
C29_FromColsWitness ==
    /\ call.op = "mat3.fromCols"
    /\ call.lhs = "M.c0"
    /\ call.out = "O"
    /\ heap["O"].c0 = "O.c0"
    /\ heap["O.c0"] = heap["M.c0"]

\* fromScaledAxis of the zero vector returned out, not the shared identity
C29_IdentityWitness ==
    /\ call.op = "quat.fromScaledAxis"
    /\ pre["S"] = Zero3
    /\ ret = "O4"
    /\ heap["O4"] = heap["quat.identity"]

(***************************************************************************)
(* C30: the sign of the 2D angle(l, r) is the sign of cross(l, r):         *)
(* angle(l, r) = -angle(r, l) for all nonzero l, r, and angle(l, r) is 0   *)
(* whenever cross(l, r) = 0, which includes anti-parallel operands         *)
(* (r = -l) as well as parallel ones.                                      *)
(***************************************************************************)
AngleOps == {"vec2.angle", "Vec2.angle", "num2.angle"}

\* a = -b as numbers: NaN equals nothing
NegatedAngle(a, b) ==
    /\ ~a.nan
    /\ ~b.nan
    /\ a.sign = -b.sign
    /\ a.cos = b.cos

C30_AngleSignIsCrossSign ==
    call.op \in AngleOps =>
        LET l == heap["L"]
            r == heap["R"]
            angle == heap[ret]
        IN  /\ ~angle.nan
            /\ angle.sign = Sign(num2_cross(l, r))
            /\ NegatedAngle(angle, num2_angle(r, l))
            /\ num2_cross(l, r) = Zero => angle = ZeroAngle

\* what the code does: the claim holds unless l and r are parallel or
\* anti-parallel with the quotient rounded beyond 1, where Math.acos and
\* the result are NaN; the three forms agree and change no operand
C30_Actual ==
    call.op \in AngleOps =>
        LET l == heap["L"]
            r == heap["R"]
            angle == heap[ret]
            beyond == num2_cross(l, r) = Zero /\ <<num2_len2(l), num2_len2(r)>> \in RoundsAboveOne
        IN  /\ angle = num2_angle(l, r)
            /\ l = pre["L"] /\ r = pre["R"]
            /\ angle.nan <=> beyond
            /\ ~beyond =>
                  /\ angle.sign = Sign(num2_cross(l, r))
                  /\ NegatedAngle(angle, num2_angle(r, l))
                  /\ num2_cross(l, r) = Zero => angle = ZeroAngle

\* angle((2, 3), (2, 3)) is NaN
C30_Witness ==
    /\ call.op = "vec2.angle"
    /\ heap["L"] = Vec2(Num(2), Num(3))
    /\ heap["R"] = Vec2(Num(2), Num(3))
    /\ heap[ret].nan

\* anti-parallel operands give 0: angle((1, 2), (-1, -2))
C30_AntiParallelWitness ==
    /\ call.op = "vec2.angle"
    /\ heap["L"] = Vec2(One, Num(2))
    /\ heap["R"] = Vec2(Num(-1), Num(-2))
    /\ heap[ret] = ZeroAngle

\* the test of the repository: angle((1, 0), (0, 1)) is a quarter turn, the
\* positive angle whose cosine is 0
C30_QuarterWitness ==
    /\ call.op = "Vec2.angle"
    /\ heap["L"] = Vec2(One, Zero)
    /\ heap["R"] = Vec2(Zero, One)
    /\ heap[ret] = [nan |-> FALSE, sign |-> 1, cos |-> [sign |-> 0, square |-> Zero]]

====
